---- MODULE Spec2Model ----
(***************************************************************************)
(* Timeline reconciliation of the trip page (TimelineSection): moments and *)
(* footprints of one trip are matched, grouped by local calendar day and   *)
(* ordered by the direction the trip status selects.                       *)
(*                                                                         *)
(* Representation of JavaScript values.                                    *)
(*  - A created_at string is the record [day, tod] of the instant it       *)
(*    denotes: day = whole days since 1970-01-01 (UTC), tod = milliseconds *)
(*    into that day.  The string no Date can parse is Unparseable.  Epoch  *)
(*    milliseconds of real dates exceed the 32-bit integers of TLC, so a   *)
(*    number is kept as the two limbs [hi, lo] = hi * MS_PER_DAY + lo,     *)
(*    0 <= lo < MS_PER_DAY, with exact subtraction; NaN is a number with   *)
(*    the flag nan.                                                        *)
(*  - A string the code compares (a day key) is the sequence of its UTF-16 *)
(*    code units.                                                          *)
(***************************************************************************)
EXTENDS Integers, Sequences, FiniteSets, TLC

\* ------------------------------------------------------------------ bounds

\* rows of table moments and breadcrumb rows of table posts of the trip
MaxMoments == 2

MaxFootprints == 2

\* breadcrumb rows of a trip some of whose rows hold a malformed created_at
MaxMalformedFootprints == 3

\* the one element of a singleton.  The({F(x) : x \in {e}}) is F(e) with e
\* evaluated once, where a LET would evaluate it at every use.
The(S) == CHOOSE x \in S : TRUE

\* ----------------------------------------------------------------- numbers

MS_PER_DAY == 24 * 60 * 60 * 1000

NaN == [nan |-> TRUE, hi |-> 0, lo |-> 0]

\* Number.POSITIVE_INFINITY: above every finite number of the model
POSITIVE_INFINITY == [nan |-> FALSE, hi |-> 2147483647, lo |-> 0]

Zero == [nan |-> FALSE, hi |-> 0, lo |-> 0]

Millis(n) == [nan |-> FALSE, hi |-> n \div MS_PER_DAY, lo |-> n % MS_PER_DAY]

\* x - y of two numbers
Minus(x, y) ==
    IF x.nan \/ y.nan THEN NaN
    ELSE IF x.lo >= y.lo
         THEN [nan |-> FALSE, hi |-> x.hi - y.hi, lo |-> x.lo - y.lo]
         ELSE [nan |-> FALSE, hi |-> x.hi - y.hi - 1, lo |-> x.lo - y.lo + MS_PER_DAY]

\* x < y, false when either is NaN
Less(x, y) ==
    /\ ~x.nan
    /\ ~y.nan
    /\ \/ x.hi < y.hi
       \/ x.hi = y.hi /\ x.lo < y.lo

\* x <= y, false when either is NaN
LessEq(x, y) == ~x.nan /\ ~y.nan /\ ~Less(y, x)

\* Math.abs
MathAbs(x) ==
    IF x.nan THEN NaN
    ELSE IF x.hi >= 0 THEN x
    ELSE IF x.lo = 0 THEN [nan |-> FALSE, hi |-> 0 - x.hi, lo |-> 0]
    ELSE [nan |-> FALSE, hi |-> 0 - x.hi - 1, lo |-> MS_PER_DAY - x.lo]

\* what Array.prototype.sort makes of a comparator's result: NaN counts as 0
Sign(x) == IF x.nan THEN 0 ELSE IF Less(x, Zero) THEN -1 ELSE IF Less(Zero, x) THEN 1 ELSE 0

\* ------------------------------------------------------------------- dates

Unparseable == [day |-> 0, tod |-> -1]

IsParseable(iso) == iso.tod >= 0

At(day, h, m, s, milli) == [day |-> day, tod |-> ((h * 60 + m) * 60 + s) * 1000 + milli]

\* new Date(iso).getTime()
ms(iso) == IF IsParseable(iso) THEN [nan |-> FALSE, hi |-> iso.day, lo |-> iso.tod] ELSE NaN

\* offset in ms of the local time zone of the rendering process, which the
\* Date getters add to an instant; the zone has no DST change in the model
VARIABLE localTZA

\* UTC-05:00 and UTC+05:30
LocalTZAs == {0 - 5 * 3600000, 5 * 3600000 + 1800000}

\* the local day number of an instant: days since 1970-01-01 of its wall-clock date
LocalDay(iso) == iso.day + ((iso.tod + localTZA) \div MS_PER_DAY)

\* proleptic Gregorian date <<year, month, day>> of a day number
CivilFromDays(z0) ==
    LET z   == z0 + 719468
        era == z \div 146097
        doe == z - era * 146097
        yoe == (doe - doe \div 1460 + doe \div 36524 - doe \div 146096) \div 365
        doy == doe - (365 * yoe + yoe \div 4 - yoe \div 100)
        mp  == (5 * doy + 2) \div 153
        d   == doy - (153 * mp + 2) \div 5 + 1
        m   == IF mp < 10 THEN mp + 3 ELSE mp - 9
        y   == yoe + era * 400 + (IF m <= 2 THEN 1 ELSE 0)
    IN  <<y, m, d>>

\* ----------------------------------------------------------------- strings

RECURSIVE Digits(_)
\* decimal digits of n >= 0 as code units
Digits(n) == IF n < 10 THEN <<48 + n>> ELSE Append(Digits(n \div 10), 48 + (n % 10))

\* String(n) of an integer
String(n) == IF n < 0 THEN <<45>> \o Digits(0 - n) ELSE Digits(n)

\* s.padStart(2, '0')
PadStart2(s) == IF Len(s) < 2 THEN <<48>> \o s ELSE s

\* String(NaN)
StrNaN == <<78, 97, 78>>

RECURSIVE StrLess(_, _)
\* a < b of two strings: by code units, a proper prefix first
StrLess(a, b) ==
    IF b = <<>> THEN FALSE
    ELSE IF a = <<>> THEN TRUE
    ELSE IF Head(a) # Head(b) THEN Head(a) < Head(b)
    ELSE StrLess(Tail(a), Tail(b))

\* a > b of two strings
StrGreater(a, b) == StrLess(b, a)

\* dayKey with the UTC date in place of the local one
dayKeyUTC(iso) ==
    IF ~IsParseable(iso)
    THEN StrNaN \o <<45>> \o PadStart2(StrNaN) \o <<45>> \o PadStart2(StrNaN)
    ELSE LET c == CivilFromDays(iso.day)
         IN  String(c[1]) \o <<45>> \o PadStart2(String(c[2])) \o <<45>> \o PadStart2(String(c[3]))

\* `${yyyy}-${mm}-${dd}` of the local date; every getter of an invalid Date is NaN
dayKey(iso) ==
    IF ~IsParseable(iso)
    THEN StrNaN \o <<45>> \o PadStart2(StrNaN) \o <<45>> \o PadStart2(StrNaN)
    ELSE LET c == CivilFromDays(LocalDay(iso))
         IN  String(c[1]) \o <<45>> \o PadStart2(String(c[2])) \o <<45>> \o PadStart2(String(c[3]))

\* ------------------------------------------------------------ reconciliation

\* a window of five minutes
FiveMinuteWindow == Millis(5 * 60 * 1000)

MATCH_WINDOW_MS == Millis(2 * 60 * 1000)

\* null, and the absent moment or footprint of an entry
Null == [id |-> 0, created_at |-> Unparseable]

\* (a, b) => ms(b.created_at) - ms(a.created_at)
NewestFirst(a, b) == Sign(Minus(ms(b.created_at), ms(a.created_at)))

\* (a, b) => ms(a.created_at) - ms(b.created_at)
OldestFirst(a, b) == Sign(Minus(ms(a.created_at), ms(b.created_at)))

\* ByDirection without the direction: newest first whatever isEnded
NewestFirstAlways(isEnded, a, b) == NewestFirst(a, b)

\* the comparator of the final sort and of the sort of a day's items
ByDirection(isEnded, a, b) == IF isEnded THEN OldestFirst(a, b) ELSE NewestFirst(a, b)

\* DayKeyOrder without the direction: oldest day first whatever isEnded
DayKeyOrderAscending(isEnded, a, b) ==
    IF a = b THEN 0 ELSE IF StrGreater(a, b) THEN 1 ELSE -1

\* the comparator of dayKeys
DayKeyOrder(isEnded, a, b) ==
    IF a = b THEN 0
    ELSE IF isEnded THEN (IF StrGreater(a, b) THEN 1 ELSE -1)
    ELSE (IF StrGreater(a, b) THEN -1 ELSE 1)

\* the result, as Array.prototype.sort reads it, of the comparator named cmp
Compare(cmp, a, b) ==
    CASE cmp = "newestFirst" -> NewestFirst(a, b)
      [] cmp = "byDirectionEnded" -> ByDirection(TRUE, a, b)
      [] cmp = "byDirectionActive" -> ByDirection(FALSE, a, b)
      [] cmp = "dayKeysEnded" -> DayKeyOrder(TRUE, a, b)
      [] cmp = "dayKeysActive" -> DayKeyOrder(FALSE, a, b)

\* ----------------------------------------------------- Array.prototype.sort

\* the positions 1..n in the order in which they occur in the permutation eng
RECURSIVE PositionsBy(_, _)
PositionsBy(eng, n) ==
    IF eng = <<>> THEN <<>>
    ELSE IF Head(eng) <= n THEN <<Head(eng)>> \o PositionsBy(Tail(eng), n)
    ELSE PositionsBy(Tail(eng), n)

\* a comparator, given by its results c[i][j] on the elements at positions i and j,
\* is consistent when it orders them as a strict weak order does (ECMA-262, 23.1.3.30)
IsConsistentComparator(c, n) ==
    LET I == 1..n
    IN  /\ \A i \in I : c[i][i] = 0
        /\ \A i, j \in I : c[i][j] = 0 - c[j][i]
        /\ \A i, j, k \in I :
              /\ (c[i][j] = 0 /\ c[j][k] = 0) => c[i][k] = 0
              /\ (c[i][j] < 0 /\ c[j][k] < 0) => c[i][k] < 0

\* the positions of a stable sort by a consistent comparator: the r-th is the
\* position that has r - 1 positions before it
StableOrder(c, n) ==
    LET I == 1..n
        Rank == [k \in I |-> 1 + Cardinality({j \in I : c[j][k] < 0 \/ (c[j][k] = 0 /\ j < k)})]
    IN  [r \in I |-> CHOOSE k \in I : Rank[k] = r]

\* s.sort(cmp): stable when the comparator is consistent; otherwise the order is
\* implementation-defined, here the one the engine eng of this run produces
ArraySort(s, cmp, eng) ==
    LET n == Len(s)
        Cmp(a, b) == Compare(cmp, a, b)
        Positions(c) ==
            IF IsConsistentComparator(c, n) THEN StableOrder(c, n) ELSE PositionsBy(eng, n)
    IN  The({[r \in 1..n |-> s[p[r]]] :
                p \in {Positions(c) : c \in {[i \in 1..n |-> [j \in 1..n |-> Cmp(s[i], s[j])]]}}})

\* the array a after a.sort(cmp): sorted in place
LeftBySortInPlace(a, cmp, eng) == ArraySort(a, cmp, eng)

\* the array a after [...a].sort(cmp): the spread makes a copy and the sort works
\* on the copy, so a is as it was
LeftBySortOfCopy(a, cmp, eng) == a

\* [...footprints].sort((a, b) => ms(b.created_at) - ms(a.created_at))
fpsForMatching(footprints_, eng) == ArraySort(footprints_, "newestFirst", eng)

RECURSIVE ScanFootprintsAnyInWindow(_, _, _, _, _, _)
\* ScanFootprints without the test dt < bestDelta: any unused footprint in the window
ScanFootprintsAnyInWindow(fps, i, used, t, best, bestDelta) ==
    IF i > Len(fps) THEN best
    ELSE LET f  == fps[i]
             dt == MathAbs(Minus(ms(f.created_at), t))
         IN  IF f.id \in used
             THEN ScanFootprintsAnyInWindow(fps, i + 1, used, t, best, bestDelta)
             ELSE IF LessEq(dt, MATCH_WINDOW_MS)
                  THEN ScanFootprintsAnyInWindow(fps, i + 1, used, t, f, dt)
                  ELSE ScanFootprintsAnyInWindow(fps, i + 1, used, t, best, bestDelta)

RECURSIVE ScanFootprintsIgnoringUsed(_, _, _, _, _, _)
\* ScanFootprints without the test of usedFootprints
ScanFootprintsIgnoringUsed(fps, i, used, t, best, bestDelta) ==
    IF i > Len(fps) THEN best
    ELSE LET f  == fps[i]
             dt == MathAbs(Minus(ms(f.created_at), t))
         IN  IF LessEq(dt, MATCH_WINDOW_MS) /\ Less(dt, bestDelta)
             THEN ScanFootprintsIgnoringUsed(fps, i + 1, used, t, f, dt)
             ELSE ScanFootprintsIgnoringUsed(fps, i + 1, used, t, best, bestDelta)

RECURSIVE ScanFootprintsBeyondWindow(_, _, _, _, _, _)
\* ScanFootprints without the test of the window: the closest unused footprint
ScanFootprintsBeyondWindow(fps, i, used, t, best, bestDelta) ==
    IF i > Len(fps) THEN best
    ELSE LET f  == fps[i]
             dt == MathAbs(Minus(ms(f.created_at), t))
         IN  IF f.id \in used
             THEN ScanFootprintsBeyondWindow(fps, i + 1, used, t, best, bestDelta)
             ELSE IF Less(dt, bestDelta)
                  THEN ScanFootprintsBeyondWindow(fps, i + 1, used, t, f, dt)
                  ELSE ScanFootprintsBeyondWindow(fps, i + 1, used, t, best, bestDelta)

RECURSIVE ScanFootprints(_, _, _, _, _, _)
\* the inner loop from position i on: the closest footprint within the window
\* that has not been used yet, or Null
ScanFootprints(fps, i, used, t, best, bestDelta) ==
    IF i > Len(fps) THEN best
    ELSE LET f  == fps[i]
             dt == MathAbs(Minus(ms(f.created_at), t))
         IN  IF f.id \in used
             THEN ScanFootprints(fps, i + 1, used, t, best, bestDelta)
             ELSE IF LessEq(dt, MATCH_WINDOW_MS) /\ Less(dt, bestDelta)
                  THEN ScanFootprints(fps, i + 1, used, t, f, dt)
                  ELSE ScanFootprints(fps, i + 1, used, t, best, bestDelta)

RECURSIVE MatchMomentsLastFirst(_, _, _, _, _)
\* MatchMoments taking the moments from the last to the first: the i-th step
\* handles the moment at position Len - i + 1 and puts its entry before the others
MatchMomentsLastFirst(moments_, i, fps, used, out) ==
    IF i > Len(moments_) THEN [usedFootprints |-> used, out |-> out]
    ELSE LET m == moments_[Len(moments_) - i + 1]
             Emit(best) ==
                 IF best # Null
                 THEN [usedFootprints |-> used \cup {best.id},
                       out |-> <<[kind |-> "combined", created_at |-> m.created_at,
                                  moment |-> m, footprint |-> best]>> \o out]
                 ELSE [usedFootprints |-> used,
                       out |-> <<[kind |-> "moment", created_at |-> m.created_at,
                                  moment |-> m, footprint |-> Null]>> \o out]
         IN  The({MatchMomentsLastFirst(moments_, i + 1, fps, r.usedFootprints, r.out) :
                     r \in {Emit(best) :
                         best \in {ScanFootprints(fps, 1, used, ms(m.created_at),
                                                  Null, POSITIVE_INFINITY)}}})

RECURSIVE MatchMoments(_, _, _, _, _)
\* the loop over the moments from position i on; yields usedFootprints and out
MatchMoments(moments_, i, fps, used, out) ==
    IF i > Len(moments_) THEN [usedFootprints |-> used, out |-> out]
    ELSE LET m == moments_[i]
             Emit(best) ==
                 IF best # Null
                 THEN [usedFootprints |-> used \cup {best.id},
                       out |-> Append(out, [kind |-> "combined", created_at |-> m.created_at,
                                            moment |-> m, footprint |-> best])]
                 ELSE [usedFootprints |-> used,
                       out |-> Append(out, [kind |-> "moment", created_at |-> m.created_at,
                                            moment |-> m, footprint |-> Null])]
         IN  The({MatchMoments(moments_, i + 1, fps, r.usedFootprints, r.out) :
                     r \in {Emit(best) :
                         best \in {ScanFootprints(fps, 1, used, ms(m.created_at),
                                                  Null, POSITIVE_INFINITY)}}})

\* the remaining unmatched footprints, in the order of fpsForMatching
RECURSIVE RemainingFootprints(_, _, _)
RemainingFootprints(fps, i, used) ==
    IF i > Len(fps) THEN <<>>
    ELSE IF fps[i].id \in used THEN RemainingFootprints(fps, i + 1, used)
    ELSE <<[kind |-> "footprint", created_at |-> fps[i].created_at,
            moment |-> Null, footprint |-> fps[i]]>>
         \o RemainingFootprints(fps, i + 1, used)

\* UnsortedEntries without the skip of the used footprints in the second loop
UnsortedEntriesKeepingUsed(moments_, footprints_, eng) ==
    LET Out(fps) ==
            The({r.out \o RemainingFootprints(fps, 1, {}) :
                    r \in {MatchMoments(moments_, 1, fps, {}, <<>>)}})
    IN  The({Out(fps) : fps \in {fpsForMatching(footprints_, eng)}})

\* UnsortedEntries without the else branch that pushes a moment left alone
UnsortedEntriesWithoutElse(moments_, footprints_, eng) ==
    LET Out(fps) ==
            The({SelectSeq(r.out, LAMBDA e : e.kind = "combined")
                     \o RemainingFootprints(fps, 1, r.usedFootprints) :
                    r \in {MatchMoments(moments_, 1, fps, {}, <<>>)}})
    IN  The({Out(fps) : fps \in {fpsForMatching(footprints_, eng)}})

\* out before the final sort
UnsortedEntries(moments_, footprints_, eng) ==
    LET Out(fps) ==
            The({r.out \o RemainingFootprints(fps, 1, r.usedFootprints) :
                    r \in {MatchMoments(moments_, 1, fps, {}, <<>>)}})
    IN  The({Out(fps) : fps \in {fpsForMatching(footprints_, eng)}})

\* the memo entries
Entries(moments_, footprints_, isEnded, eng) ==
    The({ArraySort(out, IF isEnded THEN "byDirectionEnded" ELSE "byDirectionActive", eng) :
            out \in {UnsortedEntries(moments_, footprints_, eng)}})

\* map.has(key)
MapHas(map, key) == \E g \in 1..Len(map) : map[g].key = key

RECURSIVE GroupLoop(_, _, _)
\* the loop over entries from position i on; a Map is kept as its [key, items]
\* pairs in insertion order
GroupLoop(entries_, i, map) ==
    IF i > Len(entries_) THEN map
    ELSE LET it == entries_[i]
             Put(key) ==
                 IF MapHas(map, key)
                 THEN [g \in 1..Len(map) |->
                          IF map[g].key = key
                          THEN [key |-> key, items |-> Append(map[g].items, it)]
                          ELSE map[g]]
                 ELSE Append(map, [key |-> key, items |-> <<it>>])
         IN  The({GroupLoop(entries_, i + 1, next) :
                     next \in {Put(key) : key \in {dayKey(it.created_at)}}})

\* Grouped whose Map holds an empty group before the loop starts
GroupedWithFirstDay(entries_) ==
    GroupLoop(entries_, 1, <<[key |-> dayKey(Unparseable), items |-> <<>>]>>)

\* the memo grouped
Grouped(entries_) == GroupLoop(entries_, 1, <<>>)

\* the memo dayKeys
DayKeys(grouped_, isEnded, eng) ==
    The({ArraySort(keys, IF isEnded THEN "dayKeysEnded" ELSE "dayKeysActive", eng) :
            keys \in {[g \in 1..Len(grouped_) |-> grouped_[g].key]}})

\* MapGet that finds nothing under the key of the invalid dates
MapGetOfValidDay(grouped_, dk) ==
    IF MapHas(grouped_, dk) /\ dk # dayKey(Unparseable)
    THEN grouped_[CHOOSE g \in 1..Len(grouped_) : grouped_[g].key = dk].items
    ELSE <<>>

\* grouped.get(dk) ?? []
MapGet(grouped_, dk) ==
    IF MapHas(grouped_, dk)
    THEN grouped_[CHOOSE g \in 1..Len(grouped_) : grouped_[g].key = dk].items
    ELSE <<>>

\* the day sections of the render: for every day key its items, sorted
Sections(grouped_, dayKeys_, isEnded, eng) ==
    [d \in 1..Len(dayKeys_) |->
        [key |-> dayKeys_[d],
         items |-> The({ArraySort(dayItems,
                                  IF isEnded THEN "byDirectionEnded" ELSE "byDirectionActive", eng) :
                           dayItems \in {MapGet(grouped_, dayKeys_[d])}})]]

\* ------------------------------------------------------------------- state

VARIABLES
    storeMoments,   \* rows of table moments of the trip, in the order a select returns them
    storePosts,     \* breadcrumb rows of table posts of the trip, likewise
    engine,         \* the order this run's engine gives to a sort with an inconsistent comparator
    tripStatus,     \* prop tripStatus
    moments,        \* state moments
    footprints,     \* state footprints
    loading,        \* state loading
    error,          \* state error
    inflight,       \* the calls of loadTimeline that wait at their await, with what
                    \* each of their two queries has answered so far
    entries,        \* memo entries
    grouped,        \* memo grouped
    dayKeys,        \* memo dayKeys
    sections        \* the rendered day sections: per day key the sorted day items

\* the tables as MomentsSection reads and writes them, and a MomentsSection
VARIABLES
    tableMoments,     \* ids of the rows of table moments of the trip
    tablePosts,       \* rows [id, moment_id] of table posts of the trip; moment_id 0 is null
    nextId,           \* the id the next inserted row gets
    mode,             \* prop mode
    text,             \* state text
    file,             \* state file: a file is selected
    uploadedPhotoUrl, \* state uploadedPhotoUrl: not null
    saveStatus,       \* state saveStatus
    saveMessage,      \* state saveMessage
    savedTimer,       \* savedTimerRef.current: the reset timer is armed
    listMoments,      \* state moments: ids of the listed moments
    listLoading,      \* state loading
    listError,        \* state listError
    deletingId,       \* state deletingId; 0 is null
    editingId,        \* state editingId; 0 is null
    onSavedCalls,     \* how often prop onSaved was called
    mountLoad,        \* the loadMoments call of the mount effect waits at its await
    adds,             \* the calls of addMoment: where each is and what it holds
    dels              \* the calls of deleteMoment: where each is and its moment

timelineVars == <<storeMoments, storePosts, engine, localTZA, tripStatus, moments, footprints,
                  loading, error, inflight, entries, grouped, dayKeys, sections>>

sectionVars == <<tableMoments, tablePosts, nextId, mode, text, file, uploadedPhotoUrl,
                 saveStatus, saveMessage, savedTimer, listMoments, listLoading, listError,
                 deletingId, editingId, onSavedCalls, mountLoad, adds, dels>>

\* the home page (Home and TripCreator) and the table trips of the signed-in user
VARIABLES
    tableTrips,       \* rows [id, status] of table trips
    user,             \* state user: not null
    trips,            \* state trips: ids of the listed trips
    loadingTrips,     \* state loadingTrips
    tripFilter,       \* state tripFilter
    tripRequests,     \* the calls of loadTrips in the order they were made: the filter
                      \* each asked for and, once it has answered, what it set trips to
    homeLoad,         \* load() of the mount effect waits for getUser
    saving            \* TripCreator state saving: createTrip waits for its insert

homeVars == <<tableTrips, user, trips, loadingTrips, tripFilter, tripRequests, homeLoad, saving>>

\* the page of a trip (TripPage) and the row of the trip in table trips; the
\* tables moments and posts of the trip are tableMoments and tablePosts
VARIABLES
    tripRow,           \* status of the row of the trip in table trips
    trip,              \* state trip: "null", or the status of the row it holds
    loadingTrip,       \* state loadingTrip
    tripError,         \* state tripError
    updatingTrip,      \* state updatingTrip
    tripStatusMsg,     \* state tripStatusMsg
    footprintMsg,      \* state footprintMsg
    leavingFootprint,  \* state leavingFootprint
    pageFootprints,    \* state footprints: ids of the listed posts
    loadingFootprints, \* state loadingFootprints
    footprintsError,   \* state footprintsError
    refreshTick,       \* state refreshTick
    footprintMsgTimer, \* footprintMsgTimerRef.current: the timer is armed
    tripLoad,          \* where loadTripAndFootprints of the mount effect is
    statusUpdate,      \* the call of setTripStatus: where it is and its newStatus
    leave,             \* the call of leaveFootprint: where it is
    composeSaves       \* the calls of addMoment of the compose form: where each is

tripVars == <<tripRow, trip, loadingTrip, tripError, updatingTrip, tripStatusMsg, footprintMsg,
              leavingFootprint, pageFootprints, loadingFootprints, footprintsError, refreshTick,
              footprintMsgTimer, tripLoad, statusUpdate, leave, composeSaves>>

\* a MapSection and the trips whose map it shows
VARIABLES
    mapTripId,         \* prop tripId
    mapMounted,        \* the component is mounted
    mapLoading,        \* state loading
    errorText,         \* state errorText; "" is null
    mapPosts,          \* state posts: ids of the posts
    mapMoments,        \* state moments: ids of the moments
    mapLoads           \* the calls of load(): the tripId and the flag cancelled of the
                       \* effect run each belongs to, where it is, the posts it got

mapVars == <<mapTripId, mapMounted, mapLoading, errorText, mapPosts, mapMoments, mapLoads>>

pageVars == <<homeVars, tripVars, mapVars>>

vars == <<timelineVars, sectionVars, pageVars>>

\* created_at values of the rows: 04:58:00Z, 04:59:00Z, 05:00:00Z and 05:00:00.001Z on
\* 2024-06-02, which in UTC-05:00 are 23:58:00, 23:59:00, 00:00:00 and 00:00:00.001
\* around the midnight between 2024-06-01 and 2024-06-02
T2358 == At(19876, 4, 58, 0, 0)

T2359 == At(19876, 4, 59, 0, 0)

T0000 == At(19876, 5, 0, 0, 0)

T0000_001 == At(19876, 5, 0, 0, 1)

\* 0999-12-31T12:00:00Z and 1000-01-01T12:00:00Z
TYear999 == At(-354286, 12, 0, 0, 0)

TYear1000 == At(-354285, 12, 0, 0, 0)

RecentTimes == {T2358, T2359, T0000, T0000_001}

YearTimes == {TYear999, TYear1000, T2359}

MalformedMomentTimes == {T2359, Unparseable}

MalformedFootprintTimes == {T2358, T0000, Unparseable}

\* the lists of at most n rows with created_at in times; a row's id is unique
Rows(n, times) ==
    UNION {{[i \in 1..k |-> [id |-> i, created_at |-> f[i]]] : f \in [1..k -> times]} : k \in 0..n}

\* posts rows that also hold moment_id, 0 for null or the id of one of nMoments
\* moments
RowsWithMomentId(n, times, nMoments) ==
    UNION {{[i \in 1..k |-> [id |-> i, created_at |-> f[i], moment_id |-> r[i]]] :
               f \in [1..k -> times], r \in [1..k -> 0..nMoments]} : k \in 0..n}

\* a select of posts that asked for every column
SelectedColumnsWithMomentId(rows) == rows

\* the columns of posts that loadTimeline selects and the model keeps: moment_id
\* is not among them
SelectedColumns(rows) ==
    [i \in 1..Len(rows) |-> [id |-> rows[i].id, created_at |-> rows[i].created_at]]

\* the orders an engine may give to the positions of an array of at most n elements
Engines(n) == {p \in [1..n -> 1..n] : \A i, j \in 1..n : p[i] = p[j] => i = j}

\* the engine that leaves such an array as it is
IdentityEngine(n) == [i \in 1..n |-> i]

isEnded == tripStatus = "ended"

\* no MomentsSection is looked at: its variables keep these values
NoMomentsSection ==
    /\ tableMoments = {}
    /\ tablePosts = {}
    /\ nextId = 1
    /\ mode = "none"
    /\ text = ""
    /\ file = FALSE
    /\ uploadedPhotoUrl = FALSE
    /\ saveStatus = "idle"
    /\ saveMessage = ""
    /\ savedTimer = FALSE
    /\ listMoments = {}
    /\ listLoading = FALSE
    /\ listError = ""
    /\ deletingId = 0
    /\ editingId = 0
    /\ onSavedCalls = 0
    /\ mountLoad = FALSE
    /\ adds = <<>>
    /\ dels = <<>>

\* no home page is looked at: its variables keep these values
NoHome ==
    /\ tableTrips = {}
    /\ user = FALSE
    /\ trips = {}
    /\ loadingTrips = FALSE
    /\ tripFilter = "active"
    /\ tripRequests = <<>>
    /\ homeLoad = FALSE
    /\ saving = FALSE

\* no page of a trip is looked at: its variables keep these values
NoTripPage ==
    /\ tripRow = "active"
    /\ trip = "null"
    /\ loadingTrip = TRUE
    /\ tripError = ""
    /\ updatingTrip = FALSE
    /\ tripStatusMsg = ""
    /\ footprintMsg = ""
    /\ leavingFootprint = FALSE
    /\ pageFootprints = {}
    /\ loadingFootprints = FALSE
    /\ footprintsError = ""
    /\ refreshTick = 0
    /\ footprintMsgTimer = FALSE
    /\ tripLoad = "done"
    /\ statusUpdate = [pc |-> "none", newStatus |-> "active"]
    /\ leave = "none"
    /\ composeSaves = <<>>

\* no MapSection is looked at: its variables keep these values
NoMapSection ==
    /\ mapTripId = 1
    /\ mapMounted = FALSE
    /\ mapLoading = TRUE
    /\ errorText = ""
    /\ mapPosts = {}
    /\ mapMoments = {}
    /\ mapLoads = <<>>

\* no page is looked at
NoPages == NoHome /\ NoTripPage /\ NoMapSection

\* the component right after mounting: the effect has called loadTimeline
Mounted ==
    /\ NoMomentsSection
    /\ NoPages
    /\ tripStatus \in {"active", "ended"}
    /\ localTZA \in LocalTZAs
    /\ moments = <<>>
    /\ footprints = <<>>
    /\ loading = TRUE
    /\ error = ""
    /\ entries = <<>>
    /\ grouped = <<>>
    /\ dayKeys = <<>>
    /\ sections = <<>>

\* rows with the created_at values the application stores
Init ==
    /\ storeMoments \in Rows(MaxMoments, RecentTimes)
    /\ storePosts \in Rows(MaxFootprints, RecentTimes)
    /\ engine = IdentityEngine(MaxMoments + MaxFootprints)
    /\ inflight = <<>>
    /\ Mounted

\* rows of years with three and with four digits
InitYears ==
    /\ storeMoments \in Rows(MaxMoments, YearTimes)
    /\ storePosts \in Rows(MaxFootprints, YearTimes)
    /\ engine = IdentityEngine(MaxMoments + MaxFootprints)
    /\ inflight = <<>>
    /\ Mounted

\* rows some of which hold a created_at no Date can parse; only then can a
\* comparator be inconsistent and the engine matter
InitMalformed ==
    /\ storeMoments \in Rows(MaxMoments, MalformedMomentTimes)
    /\ storePosts \in Rows(MaxMalformedFootprints, MalformedFootprintTimes)
    /\ engine \in IF \E i \in 1..Len(storePosts) : ~IsParseable(storePosts[i].created_at)
                  THEN Engines(MaxMoments + MaxMalformedFootprints)
                  ELSE {IdentityEngine(MaxMoments + MaxMalformedFootprints)}
    /\ inflight = <<>>
    /\ Mounted

\* posts rows with a moment_id: null, or the id of a stored moment
InitBackRefs ==
    /\ storeMoments \in Rows(MaxMoments, RecentTimes)
    /\ storePosts \in RowsWithMomentId(MaxFootprints, RecentTimes, Len(storeMoments))
    /\ engine = IdentityEngine(MaxMoments + MaxFootprints)
    /\ inflight = <<>>
    /\ Mounted

\* a render whose direction also depends on the state loading of before
RenderByHiddenState(moments_, footprints_, ended) ==
    /\ entries' = Entries(moments_, footprints_, ended = loading, engine)
    /\ grouped' = Grouped(entries')
    /\ dayKeys' = DayKeys(grouped', ended = loading, engine)
    /\ sections' = Sections(grouped', dayKeys', ended = loading, engine)

\* a render: the memos and the day sections for the given state and prop
Render(moments_, footprints_, ended) ==
    /\ entries' = Entries(moments_, footprints_, ended, engine)
    /\ grouped' = Grouped(entries')
    /\ dayKeys' = DayKeys(grouped', ended, engine)
    /\ sections' = Sections(grouped', dayKeys', ended, engine)

\* loadTimeline from its call to its end taken as one step, both queries answered
\* without error: the continuation after the await is all that changes state
LoadTimelineOk ==
    /\ loading
    /\ moments' = storeMoments
    /\ footprints' = LeftBySortOfCopy(SelectedColumns(storePosts), "newestFirst", engine)
    /\ loading' = FALSE
    /\ Render(storeMoments, SelectedColumns(storePosts), isEnded)
    /\ UNCHANGED <<storeMoments, storePosts, engine, localTZA, tripStatus, error, inflight>>
    /\ UNCHANGED <<sectionVars, pageVars>>

\* the parent passes another tripStatus: the memos are recomputed and the effect
\* calls loadTimeline, which runs up to its await
TripStatusChanged ==
    /\ tripStatus' = IF isEnded THEN "active" ELSE "ended"
    /\ Render(moments, footprints, ~isEnded)
    /\ moments' = moments
    /\ footprints' = LeftBySortOfCopy(footprints, "newestFirst", engine)
    /\ loading' = TRUE
    /\ error' = ""
    /\ UNCHANGED <<storeMoments, storePosts, engine, localTZA, inflight>>
    /\ UNCHANGED <<sectionVars, pageVars>>

Next == LoadTimelineOk \/ TripStatusChanged

Spec == Init /\ [][Next]_vars

SpecYears == InitYears /\ [][Next]_vars

SpecMalformed == InitMalformed /\ [][Next]_vars

SpecBackRefs == InitBackRefs /\ [][Next]_vars

\* ------------------------------------------- loadTimeline, query by query

\* at most so many calls of loadTimeline wait at their await at a time
MaxInflight == 2

\* at most so many rows in each table of the trip
MaxLoadedRows == 1

\* a query that has not answered yet
Pending == [state |-> "pending", data |-> <<>>, message |-> ""]

\* { data, error: null }
Answer(rows) == [state |-> "ok", data |-> rows, message |-> ""]

\* { data: null, error: { message } }
Failure(message) == [state |-> "error", data |-> <<>>, message |-> message]

\* what the query of table moments / of table posts can answer
MomentsAnswers == {Answer(storeMoments), Failure("moments: permission denied")}

FootprintsAnswers == {Answer(SelectedColumns(storePosts)), Failure("posts: connection lost")}

\* a call of loadTimeline up to its await: both queries are made, none has answered
NewCall == [momentsRes |-> Pending, footprintsRes |-> Pending]

\* Promise.all has resolved: both queries have answered
Settled(call) == call.momentsRes.state # "pending" /\ call.footprintsRes.state # "pending"

RemoveAt(q, c) == SubSeq(q, 1, c - 1) \o SubSeq(q, c + 1, Len(q))

\* the component right after mounting, with the call of loadTimeline of its effect
InitLoad ==
    /\ storeMoments \in Rows(MaxLoadedRows, {T2359})
    /\ storePosts \in Rows(MaxLoadedRows, {T0000})
    /\ engine = IdentityEngine(MaxMoments + MaxFootprints)
    /\ inflight = <<NewCall>>
    /\ Mounted

\* the parent passes another tripStatus: the memos are recomputed and the effect
\* calls loadTimeline, which runs up to its await
TripStatusChangedStartsLoad ==
    /\ Len(inflight) < MaxInflight
    /\ tripStatus' = IF isEnded THEN "active" ELSE "ended"
    /\ Render(moments, footprints, ~isEnded)
    /\ moments' = moments
    /\ footprints' = LeftBySortOfCopy(footprints, "newestFirst", engine)
    /\ loading' = TRUE
    /\ error' = ""
    /\ inflight' = Append(inflight, NewCall)
    /\ UNCHANGED <<storeMoments, storePosts, engine, localTZA>>
    /\ UNCHANGED <<sectionVars, pageVars>>

\* the query of table moments of the c-th waiting call answers
MomentsQueryAnswers(c) ==
    /\ c \in 1..Len(inflight)
    /\ inflight[c].momentsRes = Pending
    /\ \E res \in MomentsAnswers :
          inflight' = [inflight EXCEPT ![c].momentsRes = res]
    /\ UNCHANGED <<storeMoments, storePosts, engine, localTZA, tripStatus, moments, footprints,
                   loading, error, entries, grouped, dayKeys, sections>>
    /\ UNCHANGED <<sectionVars, pageVars>>

\* the query of table posts of the c-th waiting call answers
FootprintsQueryAnswers(c) ==
    /\ c \in 1..Len(inflight)
    /\ inflight[c].footprintsRes = Pending
    /\ \E res \in FootprintsAnswers :
          inflight' = [inflight EXCEPT ![c].footprintsRes = res]
    /\ UNCHANGED <<storeMoments, storePosts, engine, localTZA, tripStatus, moments, footprints,
                   loading, error, entries, grouped, dayKeys, sections>>
    /\ UNCHANGED <<sectionVars, pageVars>>

\* LoadTimelineContinues that checks the error of the posts query only after
\* setMoments: a failing posts query leaves the new moments in state
LoadTimelineContinuesWithMoments(c) ==
    /\ c \in 1..Len(inflight)
    /\ Settled(inflight[c])
    /\ LET momentsRes == inflight[c].momentsRes
           footprintsRes == inflight[c].footprintsRes
       IN  IF momentsRes.state = "error"
           THEN /\ error' = momentsRes.message
                /\ loading' = FALSE
                /\ UNCHANGED <<moments, footprints, entries, grouped, dayKeys, sections>>
           ELSE IF footprintsRes.state = "error"
           THEN /\ moments' = momentsRes.data
                /\ error' = footprintsRes.message
                /\ loading' = FALSE
                /\ Render(momentsRes.data, footprints, isEnded)
                /\ UNCHANGED footprints
           ELSE /\ moments' = momentsRes.data
                /\ footprints' = LeftBySortOfCopy(footprintsRes.data, "newestFirst", engine)
                /\ loading' = FALSE
                /\ Render(momentsRes.data, footprintsRes.data, isEnded)
                /\ UNCHANGED error
    /\ inflight' = RemoveAt(inflight, c)
    /\ UNCHANGED <<storeMoments, storePosts, engine, localTZA, tripStatus>>
    /\ UNCHANGED <<sectionVars, pageVars>>

\* loadTimeline of the c-th waiting call after its await
LoadTimelineContinues(c) ==
    /\ c \in 1..Len(inflight)
    /\ Settled(inflight[c])
    /\ LET momentsRes == inflight[c].momentsRes
           footprintsRes == inflight[c].footprintsRes
       IN  IF momentsRes.state = "error"
           THEN /\ error' = momentsRes.message
                /\ loading' = FALSE
                /\ UNCHANGED <<moments, footprints, entries, grouped, dayKeys, sections>>
           ELSE IF footprintsRes.state = "error"
           THEN /\ error' = footprintsRes.message
                /\ loading' = FALSE
                /\ UNCHANGED <<moments, footprints, entries, grouped, dayKeys, sections>>
           ELSE /\ moments' = momentsRes.data
                /\ footprints' = LeftBySortOfCopy(footprintsRes.data, "newestFirst", engine)
                /\ loading' = FALSE
                /\ Render(momentsRes.data, footprintsRes.data, isEnded)
                /\ UNCHANGED error
    /\ inflight' = RemoveAt(inflight, c)
    /\ UNCHANGED <<storeMoments, storePosts, engine, localTZA, tripStatus>>
    /\ UNCHANGED <<sectionVars, pageVars>>

\* the timeline without the test of error
TimelineShownDespiteError == IF ~loading /\ Len(entries) > 0 THEN sections ELSE <<>>

\* the day sections the render shows: none while loading, none while error is set
TimelineShown == IF ~loading /\ error = "" /\ Len(entries) > 0 THEN sections ELSE <<>>

NextLoad ==
    \/ TripStatusChangedStartsLoad
    \/ \E c \in 1..MaxInflight : MomentsQueryAnswers(c)
    \/ \E c \in 1..MaxInflight : FootprintsQueryAnswers(c)
    \/ \E c \in 1..MaxInflight : LoadTimelineContinues(c)

SpecLoad == InitLoad /\ [][NextLoad]_vars

\* ------------------------------------------------------------ MomentsSection

\* at most so many calls of addMoment and of deleteMoment in a run
MaxSaves == 2

MaxDeletes == 1

\* at most so many rows of table moments and of table posts before the run
MaxStoredMoments == 1

MaxStoredPosts == 1

tableVars == <<tableMoments, tablePosts, nextId>>

formVars == <<text, file, uploadedPhotoUrl>>

saveVars == <<saveStatus, saveMessage, savedTimer>>

listVars == <<listMoments, listLoading, listError>>

showCompose == mode = "compose" \/ mode = "both"

showList == mode = "list" \/ mode = "both"

\* the timeline is not looked at: its variables keep these values
NoTimeline ==
    /\ storeMoments = <<>>
    /\ storePosts = <<>>
    /\ engine = IdentityEngine(MaxMoments + MaxFootprints)
    /\ localTZA = 0
    /\ tripStatus = "active"
    /\ moments = <<>>
    /\ footprints = <<>>
    /\ loading = FALSE
    /\ error = ""
    /\ inflight = <<>>
    /\ entries = <<>>
    /\ grouped = <<>>
    /\ dayKeys = <<>>
    /\ sections = <<>>

\* the posts a trip can hold before the run: footprints left on their own
\* (moment_id null) and footprints made with one of the moments
StoredPosts(momentIds) ==
    UNION {{[k \in 1..n |-> [id |-> MaxStoredMoments + k, moment_id |-> f[k]]] :
                f \in [1..n -> momentIds \cup {0}]} : n \in 0..MaxStoredPosts}

\* a MomentsSection right after mounting: with a list, the mount effect has
\* called loadMoments
InitMoments ==
    /\ NoTimeline
    /\ NoPages
    /\ \E n \in 0..MaxStoredMoments :
          /\ tableMoments = 1..n
          /\ \E posts \in StoredPosts(1..n) :
                tablePosts = {posts[k] : k \in 1..Len(posts)}
    /\ nextId = MaxStoredMoments + MaxStoredPosts + 1
    /\ mode \in {"compose", "list", "both"}
    /\ text = ""
    /\ file = FALSE
    /\ uploadedPhotoUrl = FALSE
    /\ saveStatus = "idle"
    /\ saveMessage = ""
    /\ savedTimer = FALSE
    /\ listMoments = {}
    /\ listLoading = showList
    /\ listError = ""
    /\ deletingId = 0
    /\ editingId = 0
    /\ onSavedCalls = 0
    /\ mountLoad = showList
    /\ adds = <<>>
    /\ dels = <<>>

\* the user types into the textarea, which is disabled while saving
TypeText ==
    /\ showCompose
    /\ saveStatus # "saving"
    /\ text = ""
    /\ text' = "words"
    /\ UNCHANGED <<tableVars, mode, file, uploadedPhotoUrl, saveVars, listVars, deletingId,
                   editingId, onSavedCalls, mountLoad, adds, dels>>
    /\ UNCHANGED <<timelineVars, pageVars>>

\* onFileSelected(next) with a file
OnFileSelected ==
    /\ showCompose
    /\ saveStatus # "saving"
    /\ file' = TRUE
    /\ uploadedPhotoUrl' = FALSE
    /\ UNCHANGED <<tableVars, mode, text, saveVars, listVars, deletingId,
                   editingId, onSavedCalls, mountLoad, adds, dels>>
    /\ UNCHANGED <<timelineVars, pageVars>>

\* the reset timer of showSavedBriefly fires
SavedTimerFires ==
    /\ savedTimer
    /\ saveStatus' = "idle"
    /\ saveMessage' = ""
    /\ savedTimer' = FALSE
    /\ UNCHANGED <<tableVars, mode, formVars, listVars, deletingId,
                   editingId, onSavedCalls, mountLoad, adds, dels>>
    /\ UNCHANGED <<timelineVars, pageVars>>

\* what loadMoments does with the answer of its query
LoadMomentsContinues(res) ==
    /\ IF res = "error"
       THEN listError' = "moments: permission denied" /\ listMoments' = {}
       ELSE listMoments' = tableMoments /\ UNCHANGED listError
    /\ listLoading' = FALSE

\* the loadMoments of the mount effect after its await
MountLoadMomentsAnswers ==
    /\ mountLoad
    /\ mountLoad' = FALSE
    /\ \E res \in {"ok", "error"} : LoadMomentsContinues(res)
    /\ UNCHANGED <<tableVars, mode, formVars, saveVars, deletingId,
                   editingId, onSavedCalls, adds, dels>>
    /\ UNCHANGED <<timelineVars, pageVars>>

\* -------------------------------------------------------------- addMoment

\* addMoment from the click on "Save moment", enabled unless saving, up to its
\* first await; without words and photo it ends at once with an error
AddMomentWithin(max) ==
    /\ showCompose
    /\ saveStatus # "saving"
    /\ Len(adds) < max
    /\ listError' = ""
    /\ IF text = "" /\ ~file /\ ~uploadedPhotoUrl
       THEN /\ saveStatus' = "error"
            /\ saveMessage' = "Add a few words or a photo."
            /\ UNCHANGED adds
       ELSE /\ saveStatus' = "saving"
            /\ saveMessage' = "Saving"
            /\ adds' = Append(adds, [pc |-> "getUser", file |-> file,
                                     uploadedPhotoUrl |-> uploadedPhotoUrl, id |-> 0])
    /\ UNCHANGED <<tableVars, mode, formVars, savedTimer, listMoments, listLoading, deletingId,
                   editingId, onSavedCalls, mountLoad, dels>>
    /\ UNCHANGED <<timelineVars, pageVars>>

\* addMoment from the click, at most MaxSaves times
AddMomentStart == AddMomentWithin(MaxSaves)

\* an addMoment that has returned; what it held is of no use any more
ReturnedSave == [pc |-> "returned", file |-> FALSE, uploadedPhotoUrl |-> FALSE, id |-> 0]

\* the catch of addMoment, and its return when no user is signed in
AddMomentFails(c, message) ==
    /\ saveStatus' = "error"
    /\ saveMessage' = message
    /\ adds' = [adds EXCEPT ![c] = ReturnedSave]
    /\ UNCHANGED savedTimer

\* supabase.auth.getUser() answers the c-th call; with a user, uploadPhotoIfAny
\* runs up to its await or returns at once, and then the insert is sent
GetUserAnswers(c) ==
    /\ c \in 1..Len(adds)
    /\ adds[c].pc = "getUser"
    /\ \E res \in {"user", "error", "no user"} :
          CASE res = "error" -> AddMomentFails(c, "auth: session expired")
            [] res = "no user" -> AddMomentFails(c, "Please sign in to add a moment.")
            [] res = "user" ->
                  /\ adds' = [adds EXCEPT ![c].pc =
                                 IF adds[c].uploadedPhotoUrl \/ ~adds[c].file
                                 THEN "insert" ELSE "upload"]
                  /\ UNCHANGED saveVars
    /\ UNCHANGED <<tableVars, mode, formVars, listVars, deletingId,
                   editingId, onSavedCalls, mountLoad, dels>>
    /\ UNCHANGED <<timelineVars, pageVars>>

\* the upload of the photo answers; after a good one the insert is sent
UploadAnswers(c) ==
    /\ c \in 1..Len(adds)
    /\ adds[c].pc = "upload"
    /\ \E res \in {"ok", "error"} :
          IF res = "error"
          THEN /\ AddMomentFails(c, "storage: upload failed")
               /\ UNCHANGED uploadedPhotoUrl
          ELSE /\ uploadedPhotoUrl' = TRUE
               /\ adds' = [adds EXCEPT ![c].pc = "insert"]
               /\ UNCHANGED saveVars
    /\ UNCHANGED <<tableVars, mode, text, file, listVars, deletingId,
                   editingId, onSavedCalls, mountLoad, dels>>
    /\ UNCHANGED <<timelineVars, pageVars>>

\* the insert of the moment answers; after a good one getBrowserLocation is called
MomentInsertAnswers(c) ==
    /\ c \in 1..Len(adds)
    /\ adds[c].pc = "insert"
    /\ \E res \in {"ok", "error"} :
          IF res = "error"
          THEN /\ AddMomentFails(c, "moments: insert failed")
               /\ UNCHANGED tableVars
          ELSE /\ tableMoments' = tableMoments \cup {nextId}
               /\ nextId' = nextId + 1
               /\ adds' = [adds EXCEPT ![c].pc = "location", ![c].id = nextId]
               /\ UNCHANGED <<tablePosts, saveVars>>
    /\ UNCHANGED <<mode, formVars, listVars, deletingId,
                   editingId, onSavedCalls, mountLoad, dels>>
    /\ UNCHANGED <<timelineVars, pageVars>>

\* addMoment after its best-effort footprint: the form is cleared, the save is
\* shown as saved, the list is loaded again if there is one, onSaved is called
AfterFootprint(c) ==
    /\ text' = ""
    /\ file' = FALSE
    /\ uploadedPhotoUrl' = FALSE
    /\ saveStatus' = "saved"
    /\ saveMessage' = "Saved"
    /\ savedTimer' = TRUE
    /\ IF showList
       THEN /\ listLoading' = TRUE
            /\ listError' = ""
            /\ adds' = [adds EXCEPT ![c].pc = "loadMoments"]
            /\ UNCHANGED <<listMoments, onSavedCalls>>
       ELSE /\ adds' = [adds EXCEPT ![c] = ReturnedSave]
            /\ onSavedCalls' = onSavedCalls + 1
            /\ UNCHANGED listVars

\* the footprint steps without a try of their own: one that throws reaches the
\* catch of addMoment and ends the save as an error
AfterFootprintThrown(c) ==
    /\ saveStatus' = "error"
    /\ saveMessage' = "posts: insert failed"
    /\ adds' = [adds EXCEPT ![c] = ReturnedSave]
    /\ UNCHANGED <<formVars, savedTimer, listVars, onSavedCalls>>

\* the inner catch: a footprint step that throws is ignored
AfterFootprintCaught(c) == AfterFootprint(c)

\* getBrowserLocation answers: a position, after which reverseGeocode is called,
\* or null (no geolocation, denied, timed out), or it throws
LocationAnswers(c) ==
    /\ c \in 1..Len(adds)
    /\ adds[c].pc = "location"
    /\ \E res \in {"position", "null", "throws"} :
          CASE res = "position" ->
                  /\ adds' = [adds EXCEPT ![c].pc = "geocode"]
                  /\ UNCHANGED <<formVars, saveVars, listVars, onSavedCalls>>
            [] res = "null" -> AfterFootprint(c)
            [] res = "throws" -> AfterFootprintCaught(c)
    /\ UNCHANGED <<tableVars, mode, deletingId, editingId, mountLoad, dels>>
    /\ UNCHANGED <<timelineVars, pageVars>>

\* reverseGeocode answers, with a place or with null when it failed; the insert
\* of the footprint is sent
GeocodeAnswers(c) ==
    /\ c \in 1..Len(adds)
    /\ adds[c].pc = "geocode"
    /\ adds' = [adds EXCEPT ![c].pc = "postInsert"]
    /\ UNCHANGED <<tableVars, mode, formVars, saveVars, listVars, deletingId,
                   editingId, onSavedCalls, mountLoad, dels>>
    /\ UNCHANGED <<timelineVars, pageVars>>

\* the insert of the footprint answers: a row, or an error, which is not looked
\* at, or it throws
PostInsertAnswers(c) ==
    /\ c \in 1..Len(adds)
    /\ adds[c].pc = "postInsert"
    /\ \E res \in {"ok", "error", "throws"} :
          /\ IF res = "ok"
             THEN /\ tablePosts' = tablePosts \cup {[id |-> nextId, moment_id |-> adds[c].id]}
                  /\ nextId' = nextId + 1
                  /\ UNCHANGED tableMoments
             ELSE UNCHANGED tableVars
          /\ IF res = "throws" THEN AfterFootprintCaught(c) ELSE AfterFootprint(c)
    /\ UNCHANGED <<mode, deletingId, editingId, mountLoad, dels>>
    /\ UNCHANGED <<timelineVars, pageVars>>

\* the loadMoments at the end of addMoment answers; onSaved is called
AddLoadMomentsAnswers(c) ==
    /\ c \in 1..Len(adds)
    /\ adds[c].pc = "loadMoments"
    /\ \E res \in {"ok", "error"} : LoadMomentsContinues(res)
    /\ onSavedCalls' = onSavedCalls + 1
    /\ adds' = [adds EXCEPT ![c] = ReturnedSave]
    /\ UNCHANGED <<tableVars, mode, formVars, saveVars, deletingId, editingId, mountLoad, dels>>
    /\ UNCHANGED <<timelineVars, pageVars>>

\* ------------------------------------------------------- the list of moments

\* removeSelectedPhoto from its button, shown with a photo, enabled unless saving
RemoveSelectedPhoto ==
    /\ showCompose
    /\ file \/ uploadedPhotoUrl
    /\ saveStatus # "saving"
    /\ file' = FALSE
    /\ uploadedPhotoUrl' = FALSE
    /\ UNCHANGED <<tableVars, mode, text, saveVars, listVars, deletingId,
                   editingId, onSavedCalls, mountLoad, adds, dels>>
    /\ UNCHANGED <<timelineVars, pageVars>>

\* startEdit from the Edit button of a listed moment that is not being edited
StartEdit(m) ==
    /\ showList
    /\ m \in listMoments
    /\ editingId # m
    /\ listError' = ""
    /\ editingId' = m
    /\ UNCHANGED <<tableVars, mode, formVars, saveVars, listMoments, listLoading, deletingId,
                   onSavedCalls, mountLoad, adds, dels>>
    /\ UNCHANGED <<timelineVars, pageVars>>

\* a deleteMoment that has returned; what it held is of no use any more
ReturnedDelete == [pc |-> "returned", m |-> 0, editing |-> FALSE]

\* deleteMoment from the Delete button of a listed moment, enabled unless this
\* moment is the one being deleted, confirmed, up to its first await; whether
\* the moment is being edited is taken from the render the click happened in
DeleteMomentStart(m) ==
    /\ showList
    /\ m \in listMoments
    /\ deletingId # m
    /\ Len(dels) < MaxDeletes
    /\ deletingId' = m
    /\ listError' = ""
    /\ dels' = Append(dels, [pc |-> "deletePosts", m |-> m, editing |-> editingId = m])
    /\ UNCHANGED <<tableVars, mode, formVars, saveVars, listMoments, listLoading,
                   editingId, onSavedCalls, mountLoad, adds>>
    /\ UNCHANGED <<timelineVars, pageVars>>

\* the catch and the finally of deleteMoment
DeleteMomentFails(d, message) ==
    /\ listError' = message
    /\ deletingId' = 0
    /\ dels' = [dels EXCEPT ![d] = ReturnedDelete]
    /\ UNCHANGED <<listMoments, listLoading, editingId, onSavedCalls>>

\* the delete of the footprints of the moment answers; after a good one the
\* delete of the moment is sent
PostsDeleteAnswers(d) ==
    /\ d \in 1..Len(dels)
    /\ dels[d].pc = "deletePosts"
    /\ \E res \in {"ok", "error"} :
          IF res = "error"
          THEN /\ DeleteMomentFails(d, "posts: delete failed")
               /\ UNCHANGED tableVars
          ELSE /\ tablePosts' = {p \in tablePosts : p.moment_id # dels[d].m}
               /\ dels' = [dels EXCEPT ![d].pc = "deleteMoment"]
               /\ UNCHANGED <<tableMoments, nextId, listVars, deletingId, editingId, onSavedCalls>>
    /\ UNCHANGED <<mode, formVars, saveVars, mountLoad, adds>>
    /\ UNCHANGED <<timelineVars, pageVars>>

\* the delete of the moment answers; after a good one the edit of this moment is
\* cancelled, the list is loaded again, or onSaved called and deletingId reset
MomentDeleteAnswers(d) ==
    /\ d \in 1..Len(dels)
    /\ dels[d].pc = "deleteMoment"
    /\ \E res \in {"ok", "error"} :
          IF res = "error"
          THEN /\ DeleteMomentFails(d, "moments: delete failed")
               /\ UNCHANGED tableVars
          ELSE /\ tableMoments' = tableMoments \ {dels[d].m}
               /\ editingId' = IF dels[d].editing THEN 0 ELSE editingId
               /\ IF showList
                  THEN /\ listLoading' = TRUE
                       /\ listError' = ""
                       /\ dels' = [dels EXCEPT ![d].pc = "loadMoments"]
                       /\ UNCHANGED <<listMoments, deletingId, onSavedCalls>>
                  ELSE /\ onSavedCalls' = onSavedCalls + 1
                       /\ deletingId' = 0
                       /\ dels' = [dels EXCEPT ![d] = ReturnedDelete]
                       /\ UNCHANGED listVars
               /\ UNCHANGED <<tablePosts, nextId>>
    /\ UNCHANGED <<mode, formVars, saveVars, mountLoad, adds>>
    /\ UNCHANGED <<timelineVars, pageVars>>

\* the loadMoments at the end of deleteMoment answers; onSaved is called and the
\* finally resets deletingId
DeleteLoadMomentsAnswers(d) ==
    /\ d \in 1..Len(dels)
    /\ dels[d].pc = "loadMoments"
    /\ \E res \in {"ok", "error"} : LoadMomentsContinues(res)
    /\ onSavedCalls' = onSavedCalls + 1
    /\ deletingId' = 0
    /\ dels' = [dels EXCEPT ![d] = ReturnedDelete]
    /\ UNCHANGED <<tableVars, mode, formVars, saveVars, editingId, mountLoad, adds>>
    /\ UNCHANGED <<timelineVars, pageVars>>

\* the ids a moment can have: the stored ones and those the inserts hand out
MomentIds == 1..(MaxStoredMoments + MaxStoredPosts + 2 * MaxSaves)

NextMoments ==
    \/ TypeText
    \/ OnFileSelected
    \/ RemoveSelectedPhoto
    \/ SavedTimerFires
    \/ MountLoadMomentsAnswers
    \/ AddMomentStart
    \/ \E c \in 1..MaxSaves : GetUserAnswers(c)
    \/ \E c \in 1..MaxSaves : UploadAnswers(c)
    \/ \E c \in 1..MaxSaves : MomentInsertAnswers(c)
    \/ \E c \in 1..MaxSaves : LocationAnswers(c)
    \/ \E c \in 1..MaxSaves : GeocodeAnswers(c)
    \/ \E c \in 1..MaxSaves : PostInsertAnswers(c)
    \/ \E c \in 1..MaxSaves : AddLoadMomentsAnswers(c)
    \/ \E m \in MomentIds : StartEdit(m)
    \/ \E m \in MomentIds : DeleteMomentStart(m)
    \/ \E d \in 1..MaxDeletes : PostsDeleteAnswers(d)
    \/ \E d \in 1..MaxDeletes : MomentDeleteAnswers(d)
    \/ \E d \in 1..MaxDeletes : DeleteLoadMomentsAnswers(d)

SpecMoments == InitMoments /\ [][NextMoments]_vars

\* ------------------------------------------ one photo, saved again and again

\* at most so many calls of addMoment where one photo is followed
MaxRetries == 3

\* a composer alone on a trip without moments
InitRetry ==
    /\ InitMoments
    /\ mode = "compose"
    /\ tableMoments = {}
    /\ tablePosts = {}

\* the user picks a photo once, after the first save and before any other: every
\* later addMoment that holds a file holds this one
SelectPhotoOnce ==
    /\ Len(adds) = 1
    /\ ~file
    /\ OnFileSelected

NextRetry ==
    \/ TypeText
    \/ SelectPhotoOnce
    \/ SavedTimerFires
    \/ AddMomentWithin(MaxRetries)
    \/ \E c \in 1..MaxRetries : GetUserAnswers(c)
    \/ \E c \in 1..MaxRetries : UploadAnswers(c)
    \/ \E c \in 1..MaxRetries : MomentInsertAnswers(c)
    \/ \E c \in 1..MaxRetries : LocationAnswers(c)
    \/ \E c \in 1..MaxRetries : GeocodeAnswers(c)
    \/ \E c \in 1..MaxRetries : PostInsertAnswers(c)

SpecRetry == InitRetry /\ [][NextRetry]_vars

\* ------------------------------------------------------------ the home page

\* at most so many calls of loadTrips are made
MaxTripRequests == 5

\* at most so many trips are created
MaxCreatedTrips == 1

\* the trips the user can have before the run: an active and a completed one
StoredTrips == {[id |-> 1, status |-> "active"], [id |-> 2, status |-> "ended"]}

\* a call of loadTrips(userId, filter) up to its await
TripRequest(filter) == [filter |-> filter, state |-> "pending", data |-> {}]

\* what the query of loadTrips for filter gives: the ids of the trips of that status
TripsOfStatus(filter) == {t.id : t \in {r \in tableTrips : r.status = filter}}

\* the home page right after mounting: load() of the first effect waits for
\* getUser; the second effect found no user and did nothing
InitHome ==
    /\ NoTimeline
    /\ NoMomentsSection
    /\ NoTripPage
    /\ NoMapSection
    /\ tableTrips \in SUBSET StoredTrips
    /\ user = FALSE
    /\ trips = {}
    /\ loadingTrips = FALSE
    /\ tripFilter = "active"
    /\ tripRequests = <<>>
    /\ homeLoad = TRUE
    /\ saving = FALSE

\* getUser answers load() of the mount effect: with a user, loadTrips is called
\* for the filter of the first render, and the effect on [tripFilter, user?.id]
\* of the render that follows calls it again
HomeLoadContinues ==
    /\ homeLoad
    /\ homeLoad' = FALSE
    /\ \E signedIn \in BOOLEAN :
          /\ user' = signedIn
          /\ IF signedIn
             THEN /\ loadingTrips' = TRUE
                  /\ tripRequests' = tripRequests \o <<TripRequest("active"), TripRequest(tripFilter)>>
             ELSE UNCHANGED <<loadingTrips, tripRequests>>
    /\ UNCHANGED <<tableTrips, trips, tripFilter, saving>>
    /\ UNCHANGED <<timelineVars, sectionVars, tripVars, mapVars>>

\* a click on Active or Completed that changes the filter; the effect on
\* [tripFilter, user?.id] calls loadTrips for the new filter
SetTripFilter(filter) ==
    /\ user
    /\ filter # tripFilter
    /\ Len(tripRequests) < MaxTripRequests
    /\ tripFilter' = filter
    /\ loadingTrips' = TRUE
    /\ tripRequests' = Append(tripRequests, TripRequest(filter))
    /\ UNCHANGED <<tableTrips, user, trips, homeLoad, saving>>
    /\ UNCHANGED <<timelineVars, sectionVars, tripVars, mapVars>>

\* a loadTrips that sets trips whatever the filter is by now, as the code does
LoadTripsContinues(k, res) ==
    /\ trips' = IF res = "ok" THEN TripsOfStatus(tripRequests[k].filter) ELSE {}
    /\ loadingTrips' = FALSE
    /\ tripRequests' = [tripRequests EXCEPT ![k].state = res, ![k].data = trips']

\* the query of the k-th call of loadTrips answers, with rows or with an error
TripsQueryAnswers(k) ==
    /\ k \in 1..Len(tripRequests)
    /\ tripRequests[k].state = "pending"
    /\ \E res \in {"ok", "error"} : LoadTripsContinues(k, res)
    /\ UNCHANGED <<tableTrips, user, tripFilter, homeLoad, saving>>
    /\ UNCHANGED <<timelineVars, sectionVars, tripVars, mapVars>>

\* createTrip of TripCreator from the submit, enabled unless saving, to its await
CreateTripStart ==
    /\ user
    /\ ~saving
    /\ Cardinality(tableTrips \ StoredTrips) < MaxCreatedTrips
    /\ saving' = TRUE
    /\ UNCHANGED <<tableTrips, user, trips, loadingTrips, tripFilter, tripRequests, homeLoad>>
    /\ UNCHANGED <<timelineVars, sectionVars, tripVars, mapVars>>

\* the insert of createTrip answers; after a good one onCreated sets the filter
\* to active and calls loadTrips, and if that changed the filter the effect calls
\* loadTrips once more
TripInsertAnswers ==
    /\ saving
    /\ saving' = FALSE
    /\ \E res \in {"ok", "error"} :
          IF res = "error"
          THEN UNCHANGED <<tableTrips, tripFilter, loadingTrips, tripRequests>>
          ELSE /\ Len(tripRequests) + 2 <= MaxTripRequests
               /\ tableTrips' = tableTrips \cup
                     {[id |-> Cardinality(StoredTrips) + Cardinality(tableTrips \ StoredTrips) + 1,
                       status |-> "active"]}
               /\ tripFilter' = "active"
               /\ loadingTrips' = TRUE
               /\ tripRequests' = tripRequests \o
                     (IF tripFilter = "active"
                      THEN <<TripRequest("active")>>
                      ELSE <<TripRequest("active"), TripRequest("active")>>)
    /\ UNCHANGED <<user, trips, homeLoad>>
    /\ UNCHANGED <<timelineVars, sectionVars, tripVars, mapVars>>

NextHome ==
    \/ HomeLoadContinues
    \/ \E filter \in {"active", "ended"} : SetTripFilter(filter)
    \/ \E k \in 1..MaxTripRequests : TripsQueryAnswers(k)
    \/ CreateTripStart
    \/ TripInsertAnswers

SpecHome == InitHome /\ [][NextHome]_vars

\* --------------------------------------------------------- the page of a trip

\* no setTripStatus, leaveFootprint or addMoment starts once refreshTick is this
MaxRefreshTick == 3

\* at most so many calls of addMoment of the compose form are made
MaxComposeSaves == 1

\* the state of the MomentsSection components of the page, which is not looked at
componentVars == <<mode, formVars, saveVars, listVars, deletingId, editingId, onSavedCalls,
                   mountLoad, adds, dels>>

\* what is left alone by a step that changes the page and not the tables
pageOnly == <<timelineVars, sectionVars, homeVars, mapVars>>

\* what is left alone by a step that changes the page and the tables
pageAndTables == <<timelineVars, componentVars, homeVars, mapVars>>

NoStatusUpdate == [pc |-> "none", newStatus |-> "active"]

\* the page right after mounting: loadTripAndFootprints waits for the row of the
\* trip, which is active or ended
InitTrip ==
    /\ NoTimeline
    /\ NoMomentsSection
    /\ NoHome
    /\ NoMapSection
    /\ tripRow \in {"active", "ended"}
    /\ trip = "null"
    /\ loadingTrip = TRUE
    /\ tripError = ""
    /\ updatingTrip = FALSE
    /\ tripStatusMsg = ""
    /\ footprintMsg = ""
    /\ leavingFootprint = FALSE
    /\ pageFootprints = {}
    /\ loadingFootprints = FALSE
    /\ footprintsError = ""
    /\ refreshTick = 0
    /\ footprintMsgTimer = FALSE
    /\ tripLoad = "trip"
    /\ statusUpdate = NoStatusUpdate
    /\ leave = "none"
    /\ composeSaves = <<>>

\* loadFootprints up to its await
LoadFootprintsStarts ==
    /\ loadingFootprints' = TRUE
    /\ footprintsError' = ""
    /\ UNCHANGED pageFootprints

\* loadFootprints after its await
LoadFootprintsContinues(res) ==
    /\ IF res = "error"
       THEN footprintsError' = "posts: connection lost" /\ pageFootprints' = {}
       ELSE pageFootprints' = {p.id : p \in tablePosts} /\ UNCHANGED footprintsError
    /\ loadingFootprints' = FALSE

\* the query for the row of the trip answers loadTripAndFootprints; with a row,
\* loadFootprints is called
TripQueryAnswers ==
    /\ tripLoad = "trip"
    /\ loadingTrip' = FALSE
    /\ \E res \in {"ok", "error"} :
          IF res = "error"
          THEN /\ tripError' = "trips: permission denied"
               /\ trip' = "null"
               /\ tripLoad' = "done"
               /\ UNCHANGED <<pageFootprints, loadingFootprints, footprintsError>>
          ELSE /\ trip' = tripRow
               /\ tripLoad' = "footprints"
               /\ LoadFootprintsStarts
               /\ UNCHANGED tripError
    /\ UNCHANGED <<tripRow, updatingTrip, tripStatusMsg, footprintMsg, leavingFootprint,
                   refreshTick, footprintMsgTimer, statusUpdate, leave, composeSaves>>
    /\ UNCHANGED pageOnly

\* loadFootprints answers loadTripAndFootprints, which calls bumpRefresh
MountLoadFootprintsAnswers ==
    /\ tripLoad = "footprints"
    /\ tripLoad' = "done"
    /\ \E res \in {"ok", "error"} : LoadFootprintsContinues(res)
    /\ refreshTick' = refreshTick + 1
    /\ UNCHANGED <<tripRow, trip, loadingTrip, tripError, updatingTrip, tripStatusMsg,
                   footprintMsg, leavingFootprint, footprintMsgTimer, statusUpdate, leave,
                   composeSaves>>
    /\ UNCHANGED pageOnly

\* setTripStatus(newStatus) from the button of the shown trip, enabled unless
\* updatingTrip, up to its await: ended for an active trip, active for an ended
SetTripStatusStart ==
    /\ trip # "null"
    /\ ~updatingTrip
    /\ refreshTick < MaxRefreshTick
    /\ updatingTrip' = TRUE
    /\ tripStatusMsg' = ""
    /\ statusUpdate' = [pc |-> "update",
                        newStatus |-> IF trip = "ended" THEN "active" ELSE "ended"]
    /\ UNCHANGED <<tripRow, trip, loadingTrip, tripError, footprintMsg, leavingFootprint,
                   pageFootprints, loadingFootprints, footprintsError, refreshTick,
                   footprintMsgTimer, tripLoad, leave, composeSaves>>
    /\ UNCHANGED pageOnly

\* a setTripStatus that calls bumpRefresh whatever the update answered
SetTripStatusContinuesAlwaysBumping(res) ==
    /\ IF res = "error"
       THEN /\ tripStatusMsg' = "Error: trips: permission denied"
            /\ UNCHANGED <<tripRow, trip>>
       ELSE /\ tripRow' = statusUpdate.newStatus
            /\ trip' = statusUpdate.newStatus
            /\ tripStatusMsg' = IF statusUpdate.newStatus = "ended"
                                THEN "Journey marked ended." ELSE "Journey re-opened."
    /\ refreshTick' = refreshTick + 1
    /\ updatingTrip' = FALSE

\* setTripStatus after its await; a good update has changed the row and returned it
SetTripStatusContinues(res) ==
    /\ IF res = "error"
       THEN /\ tripStatusMsg' = "Error: trips: permission denied"
            /\ UNCHANGED <<tripRow, trip, refreshTick>>
       ELSE /\ tripRow' = statusUpdate.newStatus
            /\ trip' = statusUpdate.newStatus
            /\ tripStatusMsg' = IF statusUpdate.newStatus = "ended"
                                THEN "Journey marked ended." ELSE "Journey re-opened."
            /\ refreshTick' = refreshTick + 1
    /\ updatingTrip' = FALSE

\* the update of the row of the trip answers setTripStatus
TripUpdateAnswers ==
    /\ statusUpdate.pc = "update"
    /\ \E res \in {"ok", "error"} : SetTripStatusContinues(res)
    /\ statusUpdate' = NoStatusUpdate
    /\ UNCHANGED <<loadingTrip, tripError, footprintMsg, leavingFootprint, pageFootprints,
                   loadingFootprints, footprintsError, footprintMsgTimer, tripLoad, leave,
                   composeSaves>>
    /\ UNCHANGED pageOnly

\* leaveFootprint from its button, shown for an active trip and enabled unless
\* leavingFootprint, up to getCurrentPosition; without navigator.geolocation it
\* ends at once
LeaveFootprintStart ==
    /\ trip = "active"
    /\ ~leavingFootprint
    /\ refreshTick < MaxRefreshTick
    /\ footprintMsgTimer' = FALSE
    /\ \E geolocation \in BOOLEAN :
          IF geolocation
          THEN /\ footprintMsg' = "Getting location"
               /\ leavingFootprint' = TRUE
               /\ leave' = "position"
          ELSE /\ footprintMsg' = "Geolocation is not available in this browser."
               /\ leavingFootprint' = FALSE
               /\ UNCHANGED leave
    /\ UNCHANGED <<tripRow, trip, loadingTrip, tripError, updatingTrip, tripStatusMsg,
                   pageFootprints, loadingFootprints, footprintsError, refreshTick, tripLoad,
                   statusUpdate, composeSaves>>
    /\ UNCHANGED pageOnly

\* getCurrentPosition calls back: with a position, after which reverseGeocode is
\* called, or with an error
PositionAnswers ==
    /\ leave = "position"
    /\ \E res \in {"position", "error"} :
          IF res = "error"
          THEN /\ footprintMsg' = "Location error: timeout"
               /\ leavingFootprint' = FALSE
               /\ leave' = "none"
          ELSE /\ leave' = "geocode"
               /\ UNCHANGED <<footprintMsg, leavingFootprint>>
    /\ UNCHANGED <<tripRow, trip, loadingTrip, tripError, updatingTrip, tripStatusMsg,
                   pageFootprints, loadingFootprints, footprintsError, refreshTick,
                   footprintMsgTimer, tripLoad, statusUpdate, composeSaves>>
    /\ UNCHANGED pageOnly

\* reverseGeocode answers leaveFootprint, with a place or null; the insert of the
\* footprint is sent
LeaveGeocodeAnswers ==
    /\ leave = "geocode"
    /\ leave' = "insert"
    /\ UNCHANGED <<tripRow, trip, loadingTrip, tripError, updatingTrip, tripStatusMsg,
                   footprintMsg, leavingFootprint, pageFootprints, loadingFootprints,
                   footprintsError, refreshTick, footprintMsgTimer, tripLoad, statusUpdate,
                   composeSaves>>
    /\ UNCHANGED pageOnly

\* the insert of the footprint answers leaveFootprint; after a good one
\* loadFootprints is called
LeavePostInsertAnswers ==
    /\ leave = "insert"
    /\ \E res \in {"ok", "error"} :
          IF res = "error"
          THEN /\ footprintMsg' = "Error: posts: insert failed"
               /\ leavingFootprint' = FALSE
               /\ leave' = "none"
               /\ UNCHANGED <<tableVars, pageFootprints, loadingFootprints, footprintsError>>
          ELSE /\ tablePosts' = tablePosts \cup {[id |-> nextId, moment_id |-> 0]}
               /\ nextId' = nextId + 1
               /\ leave' = "loadFootprints"
               /\ LoadFootprintsStarts
               /\ UNCHANGED <<tableMoments, footprintMsg, leavingFootprint>>
    /\ UNCHANGED <<tripRow, trip, loadingTrip, tripError, updatingTrip, tripStatusMsg,
                   refreshTick, footprintMsgTimer, tripLoad, statusUpdate, composeSaves>>
    /\ UNCHANGED pageAndTables

\* loadFootprints answers leaveFootprint, which calls bumpRefresh and
\* showFootprintSuccessBriefly
LeaveLoadFootprintsAnswers ==
    /\ leave = "loadFootprints"
    /\ \E res \in {"ok", "error"} : LoadFootprintsContinues(res)
    /\ refreshTick' = refreshTick + 1
    /\ footprintMsg' = "Footprint left"
    /\ footprintMsgTimer' = TRUE
    /\ leavingFootprint' = FALSE
    /\ leave' = "none"
    /\ UNCHANGED <<tripRow, trip, loadingTrip, tripError, updatingTrip, tripStatusMsg,
                   tripLoad, statusUpdate, composeSaves>>
    /\ UNCHANGED pageOnly

\* the timer of showFootprintSuccessBriefly fires
FootprintMsgTimerFires ==
    /\ footprintMsgTimer
    /\ footprintMsg' = ""
    /\ footprintMsgTimer' = FALSE
    /\ UNCHANGED <<tripRow, trip, loadingTrip, tripError, updatingTrip, tripStatusMsg,
                   leavingFootprint, pageFootprints, loadingFootprints, footprintsError,
                   refreshTick, tripLoad, statusUpdate, leave, composeSaves>>
    /\ UNCHANGED pageOnly

\* addMoment of the compose form, which is rendered for an active trip, up to
\* the insert of the moment; of the MomentsSection only what it does to the
\* tables and its call of onSaved are followed here
ComposeSaveStart ==
    /\ trip = "active"
    /\ Len(composeSaves) < MaxComposeSaves
    /\ refreshTick < MaxRefreshTick
    /\ composeSaves' = Append(composeSaves, [pc |-> "momentInsert", id |-> 0])
    /\ UNCHANGED <<tripRow, trip, loadingTrip, tripError, updatingTrip, tripStatusMsg,
                   footprintMsg, leavingFootprint, pageFootprints, loadingFootprints,
                   footprintsError, refreshTick, footprintMsgTimer, tripLoad, statusUpdate,
                   leave>>
    /\ UNCHANGED pageOnly

\* the insert of the moment answers addMoment of the compose form
ComposeMomentInsertAnswers(c) ==
    /\ c \in 1..Len(composeSaves)
    /\ composeSaves[c].pc = "momentInsert"
    /\ \E res \in {"ok", "error"} :
          IF res = "error"
          THEN /\ composeSaves' = [composeSaves EXCEPT ![c].pc = "returned"]
               /\ UNCHANGED tableVars
          ELSE /\ tableMoments' = tableMoments \cup {nextId}
               /\ nextId' = nextId + 1
               /\ composeSaves' = [composeSaves EXCEPT ![c].pc = "footprint", ![c].id = nextId]
               /\ UNCHANGED tablePosts
    /\ UNCHANGED <<tripRow, trip, loadingTrip, tripError, updatingTrip, tripStatusMsg,
                   footprintMsg, leavingFootprint, pageFootprints, loadingFootprints,
                   footprintsError, refreshTick, footprintMsgTimer, tripLoad, statusUpdate,
                   leave>>
    /\ UNCHANGED pageAndTables

\* the best-effort footprint of addMoment ends, with a row inserted or without;
\* onSaved of the page is called, which calls loadFootprints
ComposeFootprintEnds(c) ==
    /\ c \in 1..Len(composeSaves)
    /\ composeSaves[c].pc = "footprint"
    /\ \E res \in {"row", "none"} :
          IF res = "row"
          THEN /\ tablePosts' = tablePosts \cup {[id |-> nextId, moment_id |-> composeSaves[c].id]}
               /\ nextId' = nextId + 1
               /\ UNCHANGED tableMoments
          ELSE UNCHANGED tableVars
    /\ composeSaves' = [composeSaves EXCEPT ![c].pc = "loadFootprints"]
    /\ LoadFootprintsStarts
    /\ UNCHANGED <<tripRow, trip, loadingTrip, tripError, updatingTrip, tripStatusMsg,
                   footprintMsg, leavingFootprint, refreshTick, footprintMsgTimer, tripLoad,
                   statusUpdate, leave>>
    /\ UNCHANGED pageAndTables

\* loadFootprints answers onSaved, which calls bumpRefresh
OnSavedLoadFootprintsAnswers(c) ==
    /\ c \in 1..Len(composeSaves)
    /\ composeSaves[c].pc = "loadFootprints"
    /\ \E res \in {"ok", "error"} : LoadFootprintsContinues(res)
    /\ refreshTick' = refreshTick + 1
    /\ composeSaves' = [composeSaves EXCEPT ![c].pc = "returned"]
    /\ UNCHANGED <<tripRow, trip, loadingTrip, tripError, updatingTrip, tripStatusMsg,
                   footprintMsg, leavingFootprint, footprintMsgTimer, tripLoad, statusUpdate,
                   leave>>
    /\ UNCHANGED pageOnly

NextTrip ==
    \/ TripQueryAnswers
    \/ MountLoadFootprintsAnswers
    \/ SetTripStatusStart
    \/ TripUpdateAnswers
    \/ LeaveFootprintStart
    \/ PositionAnswers
    \/ LeaveGeocodeAnswers
    \/ LeavePostInsertAnswers
    \/ LeaveLoadFootprintsAnswers
    \/ FootprintMsgTimerFires
    \/ ComposeSaveStart
    \/ \E c \in 1..MaxComposeSaves : ComposeMomentInsertAnswers(c)
    \/ \E c \in 1..MaxComposeSaves : ComposeFootprintEnds(c)
    \/ \E c \in 1..MaxComposeSaves : OnSavedLoadFootprintsAnswers(c)

SpecTrip == InitTrip /\ [][NextTrip]_vars

\* ---------------------------------------------------------------- MapSection

\* at most so many runs of the load effect
MaxMapLoads == 3

\* the trips prop tripId can name
MapTripIds == {1, 2}

\* the ids of the posts and of the moments of trip t
PostsOfTrip(t) == {10 * t + 1}

MomentsOfTrip(t) == {10 * t + 2}

\* a run of the effect up to the first await of load(): cancelled is false
MapLoad(t) == [tripId |-> t, pc |-> "posts", cancelled |-> FALSE, posts |-> {}]

\* the cleanup of the effect run every waiting load belongs to
CleanedUp(loads) == [l \in 1..Len(loads) |-> [loads[l] EXCEPT !.cancelled = TRUE]]

\* a load that takes cancelled to be false whatever the cleanup did
NeverCancelled(l) == FALSE

\* the variable cancelled of the effect run of the l-th load
Cancelled(l) == mapLoads[l].cancelled

\* a MapSection right after mounting: the effect has called load()
InitMap ==
    /\ NoTimeline
    /\ NoMomentsSection
    /\ NoHome
    /\ NoTripPage
    /\ mapTripId \in MapTripIds
    /\ mapMounted = TRUE
    /\ mapLoading = TRUE
    /\ errorText = ""
    /\ mapPosts = {}
    /\ mapMoments = {}
    /\ mapLoads = <<MapLoad(mapTripId)>>

\* prop tripId changes: the cleanup of the effect runs, then the effect again
MapTripIdChanges(t) ==
    /\ mapMounted
    /\ t # mapTripId
    /\ Len(mapLoads) < MaxMapLoads
    /\ mapTripId' = t
    /\ mapLoading' = TRUE
    /\ errorText' = ""
    /\ mapLoads' = Append(CleanedUp(mapLoads), MapLoad(t))
    /\ UNCHANGED <<mapMounted, mapPosts, mapMoments>>
    /\ UNCHANGED <<timelineVars, sectionVars, homeVars, tripVars>>

\* the component unmounts: the cleanup of the effect runs
MapUnmounts ==
    /\ mapMounted
    /\ mapMounted' = FALSE
    /\ mapLoads' = CleanedUp(mapLoads)
    /\ UNCHANGED <<mapTripId, mapLoading, errorText, mapPosts, mapMoments>>
    /\ UNCHANGED <<timelineVars, sectionVars, homeVars, tripVars>>

\* the posts query answers the l-th load; after a good answer the moments query
\* is made
MapPostsAnswers(l) ==
    /\ l \in 1..Len(mapLoads)
    /\ mapLoads[l].pc = "posts"
    /\ \E res \in {"ok", "error"} :
          IF res = "error"
          THEN /\ IF ~Cancelled(l)
                  THEN /\ errorText' = "Could not load map locations: connection lost"
                       /\ mapLoading' = FALSE
                  ELSE UNCHANGED <<errorText, mapLoading>>
               /\ mapLoads' = [mapLoads EXCEPT ![l].pc = "done"]
          ELSE /\ mapLoads' = [mapLoads EXCEPT ![l].pc = "moments",
                                               ![l].posts = PostsOfTrip(mapLoads[l].tripId)]
               /\ UNCHANGED <<errorText, mapLoading>>
    /\ UNCHANGED <<mapTripId, mapMounted, mapPosts, mapMoments>>
    /\ UNCHANGED <<timelineVars, sectionVars, homeVars, tripVars>>

\* the moments query answers the l-th load
MapMomentsAnswers(l) ==
    /\ l \in 1..Len(mapLoads)
    /\ mapLoads[l].pc = "moments"
    /\ \E res \in {"ok", "error"} :
          IF Cancelled(l)
          THEN UNCHANGED <<errorText, mapLoading, mapPosts, mapMoments>>
          ELSE IF res = "error"
               THEN /\ errorText' = "Could not load moments: connection lost"
                    /\ mapLoading' = FALSE
                    /\ UNCHANGED <<mapPosts, mapMoments>>
               ELSE /\ mapPosts' = mapLoads[l].posts
                    /\ mapMoments' = MomentsOfTrip(mapLoads[l].tripId)
                    /\ mapLoading' = FALSE
                    /\ UNCHANGED errorText
    /\ mapLoads' = [mapLoads EXCEPT ![l].pc = "done"]
    /\ UNCHANGED <<mapTripId, mapMounted>>
    /\ UNCHANGED <<timelineVars, sectionVars, homeVars, tripVars>>

NextMap ==
    \/ \E t \in MapTripIds : MapTripIdChanges(t)
    \/ MapUnmounts
    \/ \E l \in 1..MaxMapLoads : MapPostsAnswers(l)
    \/ \E l \in 1..MaxMapLoads : MapMomentsAnswers(l)

SpecMap == InitMap /\ [][NextMap]_vars

\* ------------------------------------------------------ properties: helpers

\* the places of the rendered timeline: <<d, k>> is the k-th item of the d-th day section
Slots == UNION {{<<d, k>> : k \in 1..Len(sections[d].items)} : d \in 1..Len(sections)}

ItemAt(sl) == sections[sl[1]].items[sl[2]]

\* instant a is earlier than instant b
Earlier(a, b) == a.day < b.day \/ (a.day = b.day /\ a.tod < b.tod)

\* milliseconds between two instants, as far as it matters: FarApart stands for
\* every distance of two days or more and for an unparseable created_at
FarApart == 2 * MS_PER_DAY

Distance(a, b) ==
    IF ~IsParseable(a) \/ ~IsParseable(b) THEN FarApart
    ELSE IF a.day - b.day > 1 \/ b.day - a.day > 1 THEN FarApart
    ELSE LET d == (a.day - b.day) * MS_PER_DAY + (a.tod - b.tod)
         IN  IF d < 0 THEN 0 - d ELSE d

\* the entry of the memo entries that holds the i-th moment
EntryOfMoment(i) == CHOOSE e \in {entries[x] : x \in 1..Len(entries)} : e.moment = moments[i]

\* the footprints combined with the moments that precede the i-th in the input
UsedBefore(i) ==
    {footprints[x].id : x \in {y \in 1..Len(footprints) :
        \E j \in 1..(i - 1) : \E z \in 1..Len(entries) :
            /\ entries[z].kind = "combined"
            /\ entries[z].moment = moments[j]
            /\ entries[z].footprint = footprints[y]}}

\* the footprints the i-th moment can be combined with when its turn comes
Candidates(i) ==
    {footprints[x] : x \in {y \in 1..Len(footprints) :
        /\ footprints[y].id \notin UsedBefore(i)
        /\ Distance(footprints[y].created_at, moments[i].created_at) <= 120000}}

\* ------------------------------------------------------------------ claims

\* C1: every footprint is in exactly one place of the output, as the footprint of
\* a combined entry or as a footprintOnly entry; none is missing, none is used twice.
C1_FootprintPartition ==
    \A i \in 1..Len(footprints) :
        /\ Cardinality({sl \in Slots : ItemAt(sl).footprint = footprints[i]}) = 1
        /\ \A sl \in Slots : ItemAt(sl).footprint = footprints[i]
              => ItemAt(sl).kind \in {"combined", "footprint"}

\* C1 happens: of two footprints one is combined and the other is left footprintOnly
C1_Witness ==
    /\ Len(footprints) = 2
    /\ \E a, b \in Slots :
          /\ ItemAt(a).kind = "combined"
          /\ ItemAt(b).kind = "footprint"
          /\ ItemAt(a).footprint # ItemAt(b).footprint

\* C2: every moment is in exactly one place of the output, in a combined or a
\* momentOnly entry.
C2_MomentCoverage ==
    \A i \in 1..Len(moments) :
        /\ Cardinality({sl \in Slots : ItemAt(sl).moment = moments[i]}) = 1
        /\ \A sl \in Slots : ItemAt(sl).moment = moments[i]
              => ItemAt(sl).kind \in {"combined", "moment"}

\* C2 happens: of two moments one is combined and the other is momentOnly
C2_Witness ==
    /\ Len(moments) = 2
    /\ \E a, b \in Slots :
          /\ ItemAt(a).kind = "combined"
          /\ ItemAt(b).kind = "moment"
          /\ ItemAt(a).moment # ItemAt(b).moment

\* C3: the moment and the footprint of a combined entry are at most 120,000 ms
\* apart; a pair further apart is never combined.
C3_WindowProperty ==
    \A sl \in Slots :
        ItemAt(sl).kind = "combined"
            => Distance(ItemAt(sl).moment.created_at, ItemAt(sl).footprint.created_at) <= 120000

\* C3 happens: a pair exactly 120,000 ms apart is combined while a footprint
\* 120,001 ms from the same moment is left alone
C3_Witness ==
    \E a, b \in Slots :
        /\ ItemAt(a).kind = "combined"
        /\ Distance(ItemAt(a).moment.created_at, ItemAt(a).footprint.created_at) = 120000
        /\ ItemAt(b).kind = "footprint"
        /\ Distance(ItemAt(a).moment.created_at, ItemAt(b).footprint.created_at) = 120001

\* C4: in input order, a moment for which a not-yet-used footprint lies within
\* 120,000 ms is combined with such a footprint of minimum time difference, which
\* thereby becomes used; a moment without one is momentOnly.
C4_GreedyRule ==
    \A i \in 1..Len(moments) :
        LET e == EntryOfMoment(i)
        IN  IF Candidates(i) = {}
            THEN e.kind = "moment"
            ELSE /\ e.kind = "combined"
                 /\ e.footprint \in Candidates(i)
                 /\ \A g \in Candidates(i) :
                       Distance(e.footprint.created_at, moments[i].created_at)
                           <= Distance(g.created_at, moments[i].created_at)

\* C4 happens: the second moment is combined with the footprint the first left,
\* although the footprint the first took is closer to it
C4_Witness ==
    /\ Len(moments) = 2
    /\ Len(footprints) = 2
    /\ EntryOfMoment(1).kind = "combined"
    /\ EntryOfMoment(2).kind = "combined"
    /\ Distance(EntryOfMoment(1).footprint.created_at, moments[2].created_at)
          < Distance(EntryOfMoment(2).footprint.created_at, moments[2].created_at)
    /\ \E g \in Candidates(1) :
          Distance(g.created_at, moments[1].created_at)
              > Distance(EntryOfMoment(1).footprint.created_at, moments[1].created_at)

\* C5: of several not-yet-used footprints at the same minimum time difference the
\* moment is combined with the one with the latest createdAt.
C5_TieToLatest ==
    \A i \in 1..Len(moments) :
        LET e == EntryOfMoment(i)
        IN  e.kind = "combined" =>
                \A g \in Candidates(i) :
                    Distance(g.created_at, moments[i].created_at)
                        = Distance(e.footprint.created_at, moments[i].created_at)
                    => ~Earlier(e.footprint.created_at, g.created_at)

\* the moments the only footprint lies within the window of
MomentsInWindow ==
    {i \in 1..Len(moments) :
        Distance(moments[i].created_at, footprints[1].created_at) <= 120000}

CombinedEntries == {x \in 1..Len(entries) : entries[x].kind = "combined"}

\* C6 as claimed: a footprint, the only one, within the window of two moments is
\* combined with the moment closer to it in time and the other moment is
\* momentOnly: one combined entry, never two.
C6_CloserMomentWins ==
    (Len(footprints) = 1 /\ Cardinality(MomentsInWindow) >= 2) =>
        /\ Cardinality(CombinedEntries) = 1
        /\ \A x \in CombinedEntries : \A i \in MomentsInWindow :
              Distance(entries[x].moment.created_at, footprints[1].created_at)
                  <= Distance(moments[i].created_at, footprints[1].created_at)

\* C6 as amended: the footprint is combined with the one of those moments that
\* comes first in the input, whichever is closer, and every other moment is
\* momentOnly: one combined entry, never two.
C6_FirstMomentWins ==
    (Len(footprints) = 1 /\ Cardinality(MomentsInWindow) >= 2) =>
        /\ Cardinality(CombinedEntries) = 1
        /\ \A x \in CombinedEntries :
              /\ entries[x].footprint = footprints[1]
              /\ \E i \in MomentsInWindow :
                    /\ entries[x].moment = moments[i]
                    /\ \A j \in MomentsInWindow : i <= j
        /\ \A i \in MomentsInWindow :
              (\E j \in MomentsInWindow : j < i) => EntryOfMoment(i).kind = "moment"

\* C6 happens: the footprint went to the first moment although the second is closer
C6_Witness ==
    /\ Len(footprints) = 1
    /\ Len(moments) = 2
    /\ MomentsInWindow = {1, 2}
    /\ Distance(moments[2].created_at, footprints[1].created_at)
          < Distance(moments[1].created_at, footprints[1].created_at)
    /\ EntryOfMoment(1).kind = "combined"
    /\ EntryOfMoment(2).kind = "moment"

\* the created_at of the first item of the d-th day section
FirstOfDay(d) == sections[d].items[1].created_at

\* C7: the day groups are in chronological order, oldest day first when isEnded
\* and newest day first otherwise, whenever all timestamps are parseable.
C7_DayGroupsChronological ==
    (\A sl \in Slots : IsParseable(ItemAt(sl).created_at)) =>
        \A d \in 1..(Len(sections) - 1) :
            IF isEnded
            THEN LocalDay(FirstOfDay(d)) < LocalDay(FirstOfDay(d + 1))
            ELSE LocalDay(FirstOfDay(d)) > LocalDay(FirstOfDay(d + 1))

\* C8: the entries of a day group are ordered by effective timestamp, never
\* decreasing when isEnded and never increasing otherwise.
C8_EntriesOrderedInDay ==
    \A d \in 1..Len(sections) :
        \A k \in 1..(Len(sections[d].items) - 1) :
            LET a == sections[d].items[k].created_at
                b == sections[d].items[k + 1].created_at
            IN  IF isEnded THEN ~Earlier(b, a) ELSE ~Earlier(a, b)

\* C8 happens: a day of an ended trip shows two entries of different times
C8_Witness ==
    /\ isEnded
    /\ \E d \in 1..Len(sections) :
          /\ Len(sections[d].items) >= 2
          /\ Earlier(sections[d].items[1].created_at, sections[d].items[2].created_at)

Reverse(q) == [i \in 1..Len(q) |-> q[Len(q) + 1 - i]]

\* the day sections with their order and the order of the items of each reversed
ReversedSections(secs) ==
    Reverse([d \in 1..Len(secs) |-> [key |-> secs[d].key, items |-> Reverse(secs[d].items)]])

PositionIn(q, it) == CHOOSE k \in 1..Len(q) : q[k] = it

\* secs2 is secs1 with the day groups reversed, each holding the same entries, any
\* two of which with different timestamps have changed places
ReversedUpToTies(secs1, secs2) ==
    /\ Len(secs2) = Len(secs1)
    /\ \A d \in 1..Len(secs1) :
          LET a == secs1[d].items
              b == secs2[Len(secs1) + 1 - d].items
          IN  /\ secs2[Len(secs1) + 1 - d].key = secs1[d].key
              /\ Len(a) = Len(b)
              /\ {a[k] : k \in 1..Len(a)} = {b[k] : k \in 1..Len(b)}
              /\ \A k, l \in 1..Len(a) :
                    (k < l /\ a[k].created_at # a[l].created_at)
                        => PositionIn(b, a[k]) > PositionIn(b, a[l])

EffectiveTimestamp(it) ==
    IF it.kind = "footprint" THEN it.footprint.created_at ELSE it.moment.created_at

\* C10: every entry is in exactly one day group, that of the local calendar day of
\* its effective timestamp (the moment's createdAt of a combined or momentOnly
\* entry, the footprint's of a footprintOnly entry); no day group is empty.
C10_DayGrouping ==
    /\ \A d \in 1..Len(sections) : sections[d].items # <<>>
    /\ \A x \in 1..Len(entries) :
          Cardinality({sl \in Slots : ItemAt(sl) = entries[x]}) = 1
    /\ \A sl \in Slots :
          /\ \E x \in 1..Len(entries) : entries[x] = ItemAt(sl)
          /\ ItemAt(sl).created_at = EffectiveTimestamp(ItemAt(sl))
          /\ sections[sl[1]].key = dayKey(EffectiveTimestamp(ItemAt(sl)))
    /\ \A a, b \in Slots :
          (a[1] = b[1]) <=> (LocalDay(EffectiveTimestamp(ItemAt(a)))
                                = LocalDay(EffectiveTimestamp(ItemAt(b))))

\* C10 happens: a combined entry sits in the day of its moment while its footprint
\* is of the next day, which has a group of its own
C10_Witness ==
    /\ Len(sections) = 2
    /\ \E sl \in Slots :
          /\ ItemAt(sl).kind = "combined"
          /\ LocalDay(ItemAt(sl).moment.created_at) # LocalDay(ItemAt(sl).footprint.created_at)
          /\ sections[sl[1]].key = dayKey(ItemAt(sl).moment.created_at)

C12_UnparseableLowest ==
    \A a, b \in Slots :
        (~IsParseable(ItemAt(a).created_at) /\ IsParseable(ItemAt(b).created_at))
            => IF isEnded THEN a[1] < b[1] ELSE a[1] > b[1]

\* the places of the rendered timeline that hold the moment m / the footprint f
SlotsOfMoment(m) ==
    {sl \in Slots : ItemAt(sl).kind \in {"combined", "moment"} /\ ItemAt(sl).moment = m}

SlotsOfFootprint(f) ==
    {sl \in Slots : ItemAt(sl).kind \in {"combined", "footprint"} /\ ItemAt(sl).footprint = f}

\* C13: a moment or footprint with an unparseable createdAt is never dropped: it
\* is in exactly one entry of some day group, and so is every other moment and
\* footprint; nothing else is rendered.
C13_MalformedKept ==
    /\ \A i \in 1..Len(moments) : Cardinality(SlotsOfMoment(moments[i])) = 1
    /\ \A j \in 1..Len(footprints) : Cardinality(SlotsOfFootprint(footprints[j])) = 1
    /\ \A sl \in Slots :
          \/ \E i \in 1..Len(moments) : sl \in SlotsOfMoment(moments[i])
          \/ \E j \in 1..Len(footprints) : sl \in SlotsOfFootprint(footprints[j])
    /\ \A d \in 1..Len(sections) : sections[d].items # <<>>

\* C13 happens: a moment and a footprint that cannot be parsed are rendered, under
\* the day key of the invalid dates, next to a combined entry of a valid day
C13_Witness ==
    /\ ~loading
    /\ \E i \in 1..Len(moments) : ~IsParseable(moments[i].created_at)
    /\ \E j \in 1..Len(footprints) : ~IsParseable(footprints[j].created_at)
    /\ \E d \in 1..Len(sections) :
          /\ sections[d].key = dayKey(Unparseable)
          /\ Len(sections[d].items) >= 2
    /\ \E sl \in Slots : ItemAt(sl).kind = "combined"

\* C14: with an empty moment list and an empty footprint list the result is
\* empty: no entries, no day groups, nothing rendered but "Nothing yet.".
C14_EmptyInput ==
    (moments = <<>> /\ footprints = <<>>)
        => (entries = <<>> /\ grouped = <<>> /\ dayKeys = <<>> /\ sections = <<>>)

\* C14 happens: a load has answered with no rows and the timeline was rendered
C14_Witness ==
    /\ ~loading
    /\ storeMoments = <<>>
    /\ storePosts = <<>>
    /\ moments = <<>>
    /\ footprints = <<>>
    /\ entries = <<>>

EntriesOfPrefix(k) ==
    The({SubSeq(out, 1, k) :
            out \in {UnsortedEntries(SubSeq(moments, 1, k), footprints, engine)}})

\* C19: the footprint of a moment depends only on the footprints and on the moments
\* before it in the input: reconciling a prefix of the moment list gives every
\* moment of the prefix the same footprint, or none, as reconciling the whole list.
C19_PrefixStable ==
    \A k \in 0..Len(moments) :
        \A pre \in {EntriesOfPrefix(k)} :
            \A i \in 1..k : pre[i] = EntryOfMoment(i)

\* C19 happens: the first moment has a footprint that is also within the window
\* of the second and at least as close to it, and the second has none
C19_Witness ==
    /\ Len(moments) = 2
    /\ EntryOfMoment(1).kind = "combined"
    /\ EntryOfMoment(2).kind = "moment"
    /\ Distance(EntryOfMoment(1).footprint.created_at, moments[2].created_at)
          <= Distance(EntryOfMoment(1).footprint.created_at, moments[1].created_at)
    /\ EntriesOfPrefix(1)[1] = EntryOfMoment(1)

\* the pairs <<i, j>> of a moment and a footprint within 120,000 ms of each other
PairsInWindow ==
    {p \in (1..Len(moments)) \X (1..Len(footprints)) :
        Distance(moments[p[1]].created_at, footprints[p[2]].created_at) <= 120000}

\* the assignments of footprints to moments within the window: no moment and no
\* footprint is in two pairs
Assignments ==
    {M \in SUBSET PairsInWindow :
        \A p, q \in M : (p[1] = q[1] \/ p[2] = q[2]) => p = q}

RECURSIVE TotalDifference(_)
\* the sum of the time differences of the pairs of an assignment
TotalDifference(M) ==
    IF M = {} THEN 0
    ELSE LET p == CHOOSE q \in M : TRUE
         IN  Distance(moments[p[1]].created_at, footprints[p[2]].created_at)
                 + TotalDifference(M \ {p})

\* the assignment the reconciler made
GreedyPairs ==
    {p \in (1..Len(moments)) \X (1..Len(footprints)) :
        \E x \in CombinedEntries :
            entries[x].moment = moments[p[1]] /\ entries[x].footprint = footprints[p[2]]}

\* an assignment is better than the reconciler's: more pairs, or as many pairs
\* and a smaller total time difference
BetterThanGreedy(M) ==
    \/ Cardinality(M) > Cardinality(GreedyPairs)
    \/ /\ Cardinality(M) = Cardinality(GreedyPairs)
       /\ TotalDifference(M) < TotalDifference(GreedyPairs)

\* C20: the greedy matching is one of the assignments within the window, every
\* combined entry is one of its pairs, and it need not be the best of them (the
\* states of C20_Witness are those where it is not).
C20_GreedyIsSomeAssignment ==
    /\ GreedyPairs \in Assignments
    /\ Cardinality(GreedyPairs) = Cardinality(CombinedEntries)

\* C20 happens: the reconciler combined one moment with a footprint and left the
\* other moment alone, while an assignment within the window pairs both moments
C20_Witness ==
    /\ Len(moments) = 2
    /\ Len(footprints) = 2
    /\ Cardinality(GreedyPairs) = 1
    /\ \E M \in Assignments : Cardinality(M) = 2 /\ BetterThanGreedy(M)

\* the other case of C20: as many combined entries as the best assignment has
\* pairs, with a larger total time difference
C20_WitnessOfLargerTotal ==
    /\ Cardinality(GreedyPairs) = 2
    /\ \E M \in Assignments :
          Cardinality(M) = 2 /\ TotalDifference(M) < TotalDifference(GreedyPairs)

\* a step is the continuation of the c-th waiting call of loadTimeline
Continued(c) ==
    /\ c \in 1..Len(inflight)
    /\ Settled(inflight[c])
    /\ inflight' = RemoveAt(inflight, c)

\* C15: loadTimeline makes both queries together and goes on only when both have
\* answered; if either answered with an error the moments and the footprints in
\* state stay as they were and nothing is reconciled, the message of the failing
\* query (of the moments query if both failed) is stored as it is, and no entry
\* is shown while error is set.
C15_LoadErrors ==
    [][/\ (inflight' # inflight /\ Len(inflight') > Len(inflight))
              => inflight' = Append(inflight, NewCall)
       /\ (moments' # moments \/ footprints' # footprints \/ (loading /\ ~loading')
              \/ (error' # error /\ error' # ""))
              => \E c \in 1..Len(inflight) : Continued(c)
       /\ \A c \in 1..Len(inflight) :
              (Continued(c) /\ (inflight[c].momentsRes.state = "error"
                                   \/ inflight[c].footprintsRes.state = "error"))
                  => /\ moments' = moments
                     /\ footprints' = footprints
                     /\ entries' = entries
                     /\ sections' = sections
                     /\ error' = IF inflight[c].momentsRes.state = "error"
                                 THEN inflight[c].momentsRes.message
                                 ELSE inflight[c].footprintsRes.message
                     /\ error' # ""
       /\ (error' # "") => (TimelineShown' = <<>>)]_vars

\* C15 happens: after a load that went well, a later call's moments query answered
\* with rows and its posts query with an error, whose message is in state; the
\* entries of the earlier load are still there and are not shown
C15_Witness ==
    /\ ~loading
    /\ inflight = <<>>
    /\ error = "posts: connection lost"
    /\ moments = storeMoments
    /\ Len(entries) > 0
    /\ sections # <<>>
    /\ TimelineShown = <<>>

\* the phases of addMoment between the insert of the moment and the end of its
\* best-effort footprint
FootprintPhases == {"location", "geocode", "postInsert"}

\* C16: once the insert of the moment has succeeded, whatever the footprint steps
\* answer (no position, a failed geocoding, a footprint insert that fails or
\* throws), the step that ends them shows the save as saved with the form
\* cleared, never as an error, and onSaved is called: in that step without a
\* list, else in the step that ends the reload of the list, which leaves the
\* status of the save alone.
C16_SaveSurvivesFootprint ==
    [][\A c \in 1..Len(adds) :
          /\ (adds[c].pc \in FootprintPhases /\ adds'[c].pc \notin FootprintPhases)
                => /\ saveStatus' = "saved"
                   /\ saveMessage' = "Saved"
                   /\ text' = "" /\ ~file' /\ ~uploadedPhotoUrl'
                   /\ IF showList
                      THEN adds'[c].pc = "loadMoments"
                      ELSE adds'[c].pc = "returned" /\ onSavedCalls' = onSavedCalls + 1
          /\ (adds[c].pc = "loadMoments" /\ adds'[c].pc # "loadMoments")
                => /\ adds'[c].pc = "returned"
                   /\ onSavedCalls' = onSavedCalls + 1
                   /\ saveStatus' = saveStatus
                   /\ UNCHANGED formVars]_vars

\* C16 happens: the one addMoment of a compose form has returned, the moment it
\* inserted has no footprint, the save is shown as saved, the form is clear and
\* onSaved was called
C16_Witness ==
    /\ mode = "compose"
    /\ adds = <<ReturnedSave>>
    /\ \E m \in tableMoments :
          /\ m > MaxStoredMoments
          /\ \A p \in tablePosts : p.moment_id # m
    /\ saveStatus = "saved"
    /\ text = "" /\ ~file /\ ~uploadedPhotoUrl
    /\ onSavedCalls = 1

\* the footprints that reference moment m
FootprintsOf(m, posts) == {p \in posts : p.moment_id = m}

\* C17: deleteMoment deletes the footprints that reference the moment and only
\* then the moment; if the delete of the footprints reports an error the moment
\* is not deleted; and when a deleteMoment completes without error neither the
\* moment nor a footprint that references it remains.
C17_Cascade ==
    [][/\ \A m \in tableMoments \ tableMoments' :
              \E d \in 1..Len(dels) : dels[d].m = m /\ dels[d].pc = "deleteMoment"
       /\ \A d \in 1..Len(dels) :
              /\ (dels[d].pc = "deletePosts" /\ dels'[d].pc = "deleteMoment")
                    => FootprintsOf(dels[d].m, tablePosts') = {}
              /\ (dels[d].pc = "deletePosts" /\ dels'[d].pc = "returned")
                    => tableMoments' = tableMoments
              /\ (dels[d].pc \in {"deleteMoment", "loadMoments"} /\ dels'[d].pc = "returned"
                     /\ listError' \notin {"posts: delete failed", "moments: delete failed"})
                    => /\ dels[d].m \notin tableMoments'
                       /\ FootprintsOf(dels[d].m, tablePosts') = {}]_vars

\* the part of C17 about the order of the two deletes and about a delete of the
\* footprints that reports an error
C17_FootprintsFirst ==
    [][/\ \A m \in tableMoments \ tableMoments' :
              \E d \in 1..Len(dels) : dels[d].m = m /\ dels[d].pc = "deleteMoment"
       /\ \A d \in 1..Len(dels) :
              /\ (dels[d].pc = "deletePosts" /\ dels'[d].pc = "deleteMoment")
                    => FootprintsOf(dels[d].m, tablePosts') = {}
              /\ (dels[d].pc = "deletePosts" /\ dels'[d].pc = "returned")
                    => tableMoments' = tableMoments]_vars

\* the last part of C17 for a list alone, where no addMoment runs beside the
\* deleteMoment
C17_CascadeOfListAlone ==
    [][\A d \in 1..Len(dels) :
          (mode = "list" /\ dels[d].pc \in {"deleteMoment", "loadMoments"}
              /\ dels'[d].pc = "returned"
              /\ listError' \notin {"posts: delete failed", "moments: delete failed"})
             => /\ dels[d].m \notin tableMoments'
                /\ FootprintsOf(dels[d].m, tablePosts') = {}]_vars

\* a deleteMoment that removed a stored footprint together with its moment
C17_CascadeHappens ==
    /\ mode = "list"
    /\ dels = <<ReturnedDelete>>
    /\ listError = ""
    /\ tableMoments = {}
    /\ tablePosts = {}
    /\ onSavedCalls = 1

\* slot a comes before slot b when the day groups are concatenated in their order
Before(a, b) == a[1] < b[1] \/ (a[1] = b[1] /\ a[2] < b[2])

\* C21: with parseable timestamps, the entries of the day groups concatenated in
\* the order of the groups are monotone in effective timestamp: never decreasing
\* when isEnded, never increasing otherwise.
C21_ConcatenationMonotone ==
    (\A sl \in Slots : IsParseable(ItemAt(sl).created_at)) =>
        \A a, b \in Slots :
            Before(a, b) =>
                IF isEnded
                THEN ~Earlier(EffectiveTimestamp(ItemAt(b)), EffectiveTimestamp(ItemAt(a)))
                ELSE ~Earlier(EffectiveTimestamp(ItemAt(a)), EffectiveTimestamp(ItemAt(b)))

\* the concatenation is monotone over two days with two entries in one of them
C21_MonotoneHappens ==
    /\ Len(sections) = 2
    /\ \E d \in 1..2 :
          /\ Len(sections[d].items) >= 2
          /\ sections[d].items[1].created_at # sections[d].items[2].created_at

\* the posts rows with their moment_id replaced by those of refs
WithMomentIds(rows, refs) ==
    [i \in 1..Len(rows) |-> [rows[i] EXCEPT !.moment_id = refs[i]]]

C23_NoDanglingMomentId ==
    \A p \in tablePosts : p.moment_id # 0 => p.moment_id \in tableMoments

\* the phases of addMoment from setSaveStatus('saving') to the end of the save as
\* saved or as an error
SavingPhases == {"getUser", "upload", "insert"} \cup FootprintPhases

\* the calls of addMoment whose save has not finished
Saving == {c \in 1..Len(adds) : adds[c].pc \in SavingPhases}

\* C24: while a save of addMoment has not finished, saveStatus is 'saving', so
\* that the Save button is disabled and no second addMoment runs beside it, also
\* when the reset timer of an earlier save is still pending.
C24_StaysSaving ==
    /\ Saving # {} => saveStatus = "saving"
    /\ Cardinality(Saving) <= 1

\* the calls of loadTrips made for the filter that is selected now
RequestsForFilter == {k \in 1..Len(tripRequests) : tripRequests[k].filter = tripFilter}

\* C25: once every call of loadTrips has answered, loadingTrips is false and the
\* listed trips are those a call made for the selected filter gave; the answer
\* to a call for a filter selected before does not replace them.
C25_TripsOfCurrentFilter ==
    (tripRequests # <<>> /\ \A k \in 1..Len(tripRequests) : tripRequests[k].state # "pending")
        => /\ ~loadingTrips
           /\ \E k \in RequestsForFilter : trips = tripRequests[k].data

\* C26: no row is inserted into moments or posts of the trip while the status of
\* the trip is ended, also by a leaveFootprint or an addMoment that started
\* while the trip was active.
C26_NoInsertWhileEnded ==
    [][(tableMoments' # tableMoments \/ tablePosts' # tablePosts) => tripRow # "ended"]_vars

\* the part of C26 about what is rendered: a leaveFootprint or an addMoment of
\* the compose form starts only while the page holds an active trip
C26_StartsOnlyWhileActive ==
    [][((leave = "none" /\ leave' # "none") \/ Len(composeSaves') > Len(composeSaves))
          => (trip = "active" /\ tripRow = "active")]_vars

\* C29: when the update of setTripStatus answers, updatingTrip becomes false; if
\* it reported an error, only the error message is set, trip and refreshTick stay
\* as they were; if not, trip is the updated row and refreshTick is one more.
C29_SetTripStatus ==
    [][(statusUpdate.pc = "update" /\ statusUpdate'.pc = "none")
          => /\ ~updatingTrip'
             /\ IF tripRow' = tripRow
                THEN /\ trip' = trip
                     /\ refreshTick' = refreshTick
                     /\ tripStatusMsg' = "Error: trips: permission denied"
                ELSE /\ tripRow' = statusUpdate.newStatus
                     /\ trip' = statusUpdate.newStatus
                     /\ refreshTick' = refreshTick + 1
                     /\ tripStatusMsg' \in {"Journey marked ended.", "Journey re-opened."}
             /\ UNCHANGED <<pageFootprints, loadingFootprints, footprintsError, footprintMsg,
                            leavingFootprint, loadingTrip, tripError>>]_vars

\* C29 happens: before the mount has bumped refreshTick, a setTripStatus ended
\* the trip and bumped it once, and a second one, to re-open it, reported an
\* error and left the trip ended and refreshTick at 1
C29_Witness ==
    /\ tripLoad = "footprints"
    /\ trip = "ended"
    /\ tripRow = "ended"
    /\ refreshTick = 1
    /\ ~updatingTrip
    /\ statusUpdate = NoStatusUpdate
    /\ tripStatusMsg = "Error: trips: permission denied"
    /\ leave = "none"
    /\ composeSaves = <<>>

\* C27: a load whose effect run has been cleaned up, by an unmount or a change
\* of tripId, changes no state when one of its two queries answers, with rows or
\* with an error: posts, moments, errorText and loading stay as they are.
C27_CancelledLoadIsSilent ==
    [][\A l \in 1..Len(mapLoads) :
          (mapLoads[l].cancelled /\ mapLoads'[l].pc # mapLoads[l].pc)
             => UNCHANGED <<mapPosts, mapMoments, errorText, mapLoading>>]_vars

\* C27 happens: tripId has changed, the load of the former tripId has got its
\* posts and then its moments, and the component still waits for the load of
\* the new tripId with nothing of the former shown
C27_Witness ==
    /\ mapMounted
    /\ Len(mapLoads) = 2
    /\ mapLoads[1].cancelled /\ mapLoads[1].pc = "done" /\ mapLoads[1].posts # {}
    /\ ~mapLoads[2].cancelled /\ mapLoads[2].pc = "posts"
    /\ mapLoading
    /\ mapPosts = {}
    /\ mapMoments = {}
    /\ errorText = ""

\* C28: one selected photo is uploaded at most once: an upload ends well only
\* while no public URL is stored for the selected file.
C28_UploadedAtMostOnce ==
    [][\A c \in 1..Len(adds) :
          (adds[c].pc = "upload" /\ adds'[c].pc = "insert") => ~uploadedPhotoUrl]_vars

\* C28, the retry: an addMoment that started with a stored URL sends no upload
C28_RetryReusesUrl ==
    \A c \in 1..Len(adds) : adds[c].uploadedPhotoUrl => adds[c].pc # "upload"

\* C28, the reset: selecting or removing a file leaves no stored URL
C28_ResetOnSelectOrRemove ==
    [][(file' # file /\ adds' = adds) => ~uploadedPhotoUrl']_vars

====
